---- MODULE Spec2Model ----
(***************************************************************************)
(* Model of go-ecs-utils:                                                  *)
(*   overrun - the EC2 filter parser (ParseEc2Filter, FilterString), the   *)
(*             Fargate network resolver (buildRunTaskInput and the         *)
(*             vpcConfigFor... chain), the wait for the submitted task     *)
(*             with sigintStopTask, and the overrides (parseArgs,          *)
(*             constructCommand, buildOverrides);                          *)
(*   jvshim  - the scan of the arguments, the rewriting of the JVM memory  *)
(*             flags and the arguments handed to java;                     *)
(*   ssmple  - the get, put, delete and clear commands for one file.       *)
(*                                                                         *)
(* The source tree holds two revisions of overrun.  The variable `build`   *)
(* says which one runs:                                                    *)
(*   "head"  - the parser of src/unnamed/part_000 with src/overrun/main.go *)
(*   "prior" - the parser and resolver kept in src/overrun/filter.go       *)
(*                                                                         *)
(* A Go string is a sequence of one-character strings, so that the regular  *)
(* expressions, strings.Split and strings.SplitN are computed character by  *)
(* character.                                                               *)
(***************************************************************************)
EXTENDS Integers, Sequences, FiniteSets, TLC

VARIABLES
    build,          \* which revision of the code runs
    filter,         \* ParseEc2Filter: the token argument
    defaultFilter,  \* ParseEc2Filter: the fallback attribute name, or Nil
    parsePc,        \* "call" before ParseEc2Filter has run, "done" after
    valid,          \* ParseEc2Filter: first return value
    parsed,         \* ParseEc2Filter: second return value (an ec2.Filter)
    prefs,          \* ParsedArgs: the fields the network resolver reads
    ctx,            \* ExecutionContext: AnyFilters
    pc,             \* the provider query buildRunTaskInput is about to send
    filters,        \* the filters argument of vpcConfigForHost / ...ForNet
    instance,       \* vpcConfigForHost: the matched instance, else NoInstance
    subnets,        \* the local subnets of vpcConfigForHost / ...ForNet
    calls,          \* the provider queries sent so far, with their filters
    results,        \* the response received to each kind of query
    outcome,        \* "running", "ok", "error" (error returned) or "panic"
    err,            \* the error returned, else NoError
    input,          \* the RunTaskInput built: launch type and network config
    WaitStopped,    \* ParsedArgs.WaitStopped (--wait)
    StreamLog,      \* ParsedArgs.StreamLog (--stream-log)
    mainPc,         \* main: its position after the task was submitted
    taskStopped,    \* the submitted task has reached STOPPED
    containers,     \* the Containers of the stopped task, <<>> before
    exited,         \* the overrun process has ended
    exitBy,         \* "return", "os.Exit", "log.Fatal", "signal", "panic"
    exitCode,       \* its exit code
    sigs,           \* the channel sigs (capacity 1)
    notified,       \* signal.Notify(sigs, SIGINT) is in effect
    sigPc,          \* sigintStopTask: "idle", "recv", "send" or "done"
    sigints,        \* SIGINTs delivered to the process so far
    stopCalls,      \* stop-task requests sent so far
    stopOk,         \* a stop-task request has succeeded
    tailPc,         \* GoTailLogs: "idle" or "loop"
    firstRun,       \* GoTailLogs: the local firstRun
    wg,             \* the counter of the sync.WaitGroup of main
    passes,         \* GoTailLogs: passes of the loop completed so far
    okPasses,       \* GoTailLogs: passes whose events.Err() was nil
    doneCalls,      \* calls of group.Done() so far
    osArgs,         \* jvshim: os.Args, a list of tokens
    TestLimit,      \* jvshim: the value of --testlimit in bytes, 0 without
    cgroupLimit,    \* jvshim: memory.limit_in_bytes, 0 when unreadable
    jvPc,           \* jvshim: "parseArgs", "main", "exec", then how it ended
    jvPrefs,        \* jvshim: the ParsedArgs that parseArgs returned
    totalLimit,     \* jvshim main: the local totalLimit
    jvmSet,         \* jvshim main: the local jvmSet, a list of flags
    argv,           \* jvshim main: the arguments handed to java, <<>> before
    ovArgs,         \* overrun: os.Args[1:], the shell and role options
    ovPc,           \* "parseArgs", "buildOverrides" or "done"
    ovOutcome,      \* "running", "ok", "fatal" (log.Fatalf) or "panic"
    ovPrefs,        \* ParsedArgs: the fields buildOverrides reads
    tsk,            \* buildOverrides: the ecs.TaskOverride returned
    ssmCmd,         \* ssmple: ParsedArgs.SsmCmd
    ssmPrefs,       \* ssmple: the flags of ParsedArgs that the commands read
    ssmPc,          \* ssmple: "buildAliasList", "do", "done" or "failed"
    dict,           \* ssmple: store.Dict of the file, a map of key to value
    params,         \* SSM: the parameters under the path of the file
    kmsMap,         \* ssmple: ctx.KmsMap
    ssmSent         \* ssmple: the DeleteParameters and PutParameter inputs

parseVars == <<filter, defaultFilter, parsePc, valid, parsed>>
netVars == <<prefs, ctx, pc, filters, instance, subnets, calls, results,
             outcome, err, input>>
tailVars == <<tailPc, firstRun, wg, passes, okPasses, doneCalls>>
mainVars == <<WaitStopped, StreamLog, mainPc, taskStopped, containers,
              exited, exitBy, exitCode, sigs, notified, sigPc, sigints,
              stopCalls, stopOk, tailVars>>
jvVars == <<osArgs, TestLimit, cgroupLimit, jvPc, jvPrefs, totalLimit,
            jvmSet, argv>>
ovVars == <<ovArgs, ovPc, ovOutcome, ovPrefs, tsk>>
ssmVars == <<ssmCmd, ssmPrefs, ssmPc, dict, params, kmsMap, ssmSent>>
restVars == <<mainVars, jvVars, ovVars, ssmVars>>

----------------------------------------------------------------------------
(* Strings *)

\* a nil pointer; no Go string equals it, since every element of a Go string
\* is a single character
Nil == <<"nil">>

Builds == {"head", "prior"}

Str_Name      == <<"N","a","m","e","=">>
Str_Values    == <<",","V","a","l","u","e","s","=">>
Str_Dash      == <<"-">>
Str_i         == <<"i","-">>
Str_subnet    == <<"s","u","b","n","e","t","-">>
Str_sg        == <<"s","g","-">>
Str_vpc       == <<"v","p","c","-">>

FilterInstanceId      == <<"i","n","s","t","a","n","c","e","-","i","d">>
FilterSubnetId        == <<"s","u","b","n","e","t","-","i","d">>
FilterSecurityGroupId == <<"g","r","o","u","p","-","i","d">>
FilterVpcId           == <<"v","p","c","-","i","d">>
FilterTagName         == <<"t","a","g",":","N","a","m","e">>
\* the literal the prior revision uses for sg- tokens
PriorSecurityId       == <<"s","e","c","u","r","i","t","y","-","i","d">>

\* strings.HasPrefix(s, p)
HasPrefix(s, p) ==
    /\ Len(s) >= Len(p)
    /\ SubSeq(s, 1, Len(p)) = p

\* strings.Index(s, c) for a one-character c, counted from 1; 0 when absent
Index(s, c) ==
    IF \E i \in 1..Len(s) : s[i] = c
    THEN CHOOSE i \in 1..Len(s) : s[i] = c /\ \A j \in 1..(i-1) : s[j] # c
    ELSE 0

\* the text after position i
Tail_(s, i) == SubSeq(s, i + 1, Len(s))

\* strings.Split(s, ","): the pieces between commas, empty pieces kept;
\* the empty string splits into one empty piece
RECURSIVE Split(_)
Split(s) ==
    LET c == Index(s, ",")
    IN  IF c = 0 THEN <<s>>
        ELSE <<SubSeq(s, 1, c - 1)>> \o Split(Tail_(s, c))

\* SplitN2 as strings.Split(s, "=") would have it: the second piece ends at
\* the second '='
SplitN2_SplitAll(s) ==
    LET e == Index(s, "=")
        t == SubSeq(s, e + 1, Len(s))
        f == Index(t, "=")
    IN  IF e = 0 THEN <<s>>
        ELSE <<SubSeq(s, 1, e - 1),
               IF f = 0 THEN t ELSE SubSeq(t, 1, f - 1)>>

\* strings.SplitN(s, "=", 2): cut at the first '=' only
SplitN2(s) ==
    LET e == Index(s, "=")
    IN  IF e = 0 THEN <<s>>
        ELSE <<SubSeq(s, 1, e - 1), Tail_(s, e)>>

\* strings.Join(pieces, sep)
RECURSIVE Join(_, _)
Join(pieces, sep) ==
    IF pieces = <<>> THEN <<>>
    ELSE IF Len(pieces) = 1 THEN pieces[1]
    ELSE pieces[1] \o sep \o Join(Tail(pieces), sep)

\* "." and "$" of Go's regexp: "." matches no line feed and "$" only the
\* end of the text, so a match that must run to "$" has no line feed in it
NoLineFeed(s) == \A i \in 1..Len(s) : s[i] # "\n"

\* longPat.FindStringSubmatch for ^Name=([^,]+),Values=(.*)$ : <<>> when the
\* token does not match, else <<whole match, group 1, group 2>>.  [^,]+ ends
\* at the first comma after "Name=", so the match is unique.
FindLongSubmatch(s) ==
    IF ~HasPrefix(s, Str_Name) THEN <<>>
    ELSE LET rest == Tail_(s, Len(Str_Name))
             c    == Index(rest, ",")
         IN  IF c > 1
                /\ HasPrefix(SubSeq(rest, c, Len(rest)), Str_Values)
                /\ NoLineFeed(Tail_(rest, c - 1 + Len(Str_Values)))
             THEN <<s, SubSeq(rest, 1, c - 1),
                    Tail_(rest, c - 1 + Len(Str_Values))>>
             ELSE <<>>

\* longPat.MatchString
MatchLongFilter(s) == FindLongSubmatch(s) # <<>>

\* regexp.MatchString("^[^=]+=.*$", s)
MatchShortFilter(s) ==
    LET e == Index(s, "=")
    IN  e > 1 /\ NoLineFeed(Tail_(s, e))

MatchInstanceId(s)      == HasPrefix(s, Str_i)
MatchSubnetId(s)        == HasPrefix(s, Str_subnet)
MatchSecurityGroupId(s) == HasPrefix(s, Str_sg)
MatchVpcId(s)           == HasPrefix(s, Str_vpc)

----------------------------------------------------------------------------
(* ec2.Filter and the parser *)

Filter(name, values) == [Name |-> name, Values |-> values]

\* ec2.Filter{}
EmptyFilter == Filter(Nil, <<>>)

ParseResult(ok, f) == [valid |-> ok, filter |-> f]

\* ParseDefault without the fallback branch
ParseDefault_Reject(tok, dflt) == ParseResult(FALSE, EmptyFilter)

\* the last two branches of ParseEc2Filter, the same in both revisions: the
\* fallback name if one was supplied, else "not recognized"
ParseDefault(tok, dflt) ==
    IF dflt # Nil THEN ParseResult(TRUE, Filter(dflt, <<tok>>))
    ELSE ParseResult(FALSE, EmptyFilter)

\* ParseEc2Filter of src/unnamed/part_000
ParseEc2FilterHead(tok, dflt) ==
    IF MatchLongFilter(tok) THEN
        LET subs == FindLongSubmatch(tok)
        IN  ParseResult(TRUE, Filter(subs[2], Split(subs[3])))
    ELSE IF MatchShortFilter(tok) THEN
        LET subs == SplitN2(tok)
        IN  ParseResult(TRUE, Filter(subs[1], Split(subs[2])))
    ELSE IF HasPrefix(tok, Str_Dash) THEN ParseResult(FALSE, EmptyFilter)
    ELSE IF MatchInstanceId(tok) THEN
        ParseResult(TRUE, Filter(FilterInstanceId, <<tok>>))
    ELSE IF MatchSubnetId(tok) THEN
        ParseResult(TRUE, Filter(FilterSubnetId, <<tok>>))
    ELSE IF MatchVpcId(tok) THEN
        ParseResult(TRUE, Filter(FilterVpcId, <<tok>>))
    ELSE IF MatchSecurityGroupId(tok) THEN
        ParseResult(TRUE, Filter(FilterSecurityGroupId, <<tok>>))
    ELSE ParseDefault(tok, dflt)

\* ParseEc2Filter of src/overrun/filter.go: the long form takes subs[0] (the
\* whole match) as the name and splits subs[1] (the name group) into the
\* values; sg- tokens are named "security-id"
ParseEc2FilterPrior(tok, dflt) ==
    IF MatchLongFilter(tok) THEN
        LET subs == FindLongSubmatch(tok)
        IN  ParseResult(TRUE, Filter(subs[1], Split(subs[2])))
    ELSE IF MatchShortFilter(tok) THEN
        LET subs == SplitN2(tok)
        IN  ParseResult(TRUE, Filter(subs[1], Split(subs[2])))
    ELSE IF HasPrefix(tok, Str_Dash) THEN ParseResult(FALSE, EmptyFilter)
    ELSE IF MatchInstanceId(tok) THEN
        ParseResult(TRUE, Filter(FilterInstanceId, <<tok>>))
    ELSE IF MatchSubnetId(tok) THEN
        ParseResult(TRUE, Filter(FilterSubnetId, <<tok>>))
    ELSE IF MatchVpcId(tok) THEN
        ParseResult(TRUE, Filter(FilterVpcId, <<tok>>))
    ELSE IF MatchSecurityGroupId(tok) THEN
        ParseResult(TRUE, Filter(PriorSecurityId, <<tok>>))
    ELSE ParseDefault(tok, dflt)

ParseEc2Filter(b, tok, dflt) ==
    IF b = "head" THEN ParseEc2FilterHead(tok, dflt)
    ELSE ParseEc2FilterPrior(tok, dflt)

\* readFilterArgs of parseArgs: parse the tokens after an option until the
\* first one that is not recognized; returns the filters (their number is
\* the number of tokens consumed)
RECURSIVE readFilterArgs(_, _, _)
readFilterArgs(b, dflt, optToEnd) ==
    IF optToEnd = <<>> THEN <<>>
    ELSE LET r == ParseEc2Filter(b, Head(optToEnd), dflt)
         IN  IF r.valid
             THEN <<r.filter>> \o readFilterArgs(b, dflt, Tail(optToEnd))
             ELSE <<>>

----------------------------------------------------------------------------
(* The network resolver: data *)

FilterModeCluster == 0
FilterModeHost    == 1
FilterModeNetwork == 2

\* the literal 10 of the resolver: the index bound of the subnet loop, and
\* the size bound of the security-group map and list
SubnetCap == 10
SgCap     == 10

Ops == {"DescribeVpcs", "ListContainerInstances",
        "DescribeContainerInstances", "DescribeInstances",
        "DescribeSubnets", "DescribeSecurityGroups"}

\* a response of the provider: not received yet, an error, or a result set
NoResp      == [st |-> "none"]
ErrResp     == [st |-> "err"]
OkResp(v)   == [st |-> "ok", val |-> v]

\* error values: none, the error a provider query returned, errors.New(msg)
NoError           == [kind |-> "none"]
QueryError(op)    == [kind |-> "query", op |-> op]
MessageError(msg) == [kind |-> "message", msg |-> msg]

\* ecs.NetworkConfiguration{} and one with an AwsvpcConfiguration
NoConfig == [set |-> FALSE]
NetworkConfiguration(sn, sg, ip) ==
    [set |-> TRUE, Subnets |-> sn, SecurityGroups |-> sg,
     AssignPublicIp |-> IF ip THEN "ENABLED" ELSE "DISABLED"]

\* the *ecs.RunTaskInput returned by buildRunTaskInput; NoInput is nil
NoInput == [LaunchType |-> "none", NetworkConfiguration |-> NoConfig]
RunTaskInput(lt, cfg) == [LaunchType |-> lt, NetworkConfiguration |-> cfg]

NoInstance == [SubnetId |-> Nil, SecurityGroups |-> <<>>, none |-> TRUE]

\* ec2.Filter.String(): the SDK's rendering of one filter
FilterToString(f) ==
    <<"{Name:">> \o f.Name \o <<",Values:[">>
        \o Join(f.Values, <<",">>) \o <<"]}">>

\* FilterString: the renderings joined by one space
FilterString(fs) ==
    Join([i \in 1..Len(fs) |-> FilterToString(fs[i])], <<" ">>)

\* NoInstanceMessage without the rendered filters
NoInstanceMessage_NoFilters(fs) ==
    <<"failed to find instance matching filter: ">>

NoInstanceMessage(fs) ==
    <<"failed to find instance matching filter: ">> \o FilterString(fs)
NoSubnetMessage(fs) ==
    <<"failed to find subnet matching filters: ">> \o FilterString(fs)
\* the message without the name of the cluster
NoContainerInstancesMessage_NoCluster(cluster) ==
    <<"no describable container instances running in cluster ">>
        \o <<". please specify --fargate:net or --fargate:host">>

NoContainerInstancesMessage(cluster) ==
    <<"no describable container instances running in cluster ">> \o cluster
        \o <<". please specify --fargate:net or --fargate:host">>

Min(a, b) == IF a < b THEN a ELSE b

\* s[0:n] when len(s) > n, else s
Truncate(s, n) == SubSeq(s, 1, Min(Len(s), n))

Range(s) == {s[i] : i \in 1..Len(s)}

\* some enumeration of a finite set
RECURSIVE SeqOf(_)
SeqOf(S) ==
    IF S = {} THEN <<>>
    ELSE LET x == CHOOSE y \in S : TRUE IN <<x>> \o SeqOf(S \ {x})

Rotate(s, k) == SubSeq(s, k + 1, Len(s)) \o SubSeq(s, 1, k)

\* the orders in which "for _, v := range m" may visit a map with key set
\* S.  Go leaves the order unspecified and starts at a random position; the
\* model draws the starting position in one enumeration of the keys.
MapRangeOrders(S) ==
    IF S = {} THEN {<<>>}
    ELSE LET s == SeqOf(S)
         IN  {Rotate(s, k) : k \in 0..(Len(s) - 1)}

\* the merge without the test of len(sgroupMap)
MergeCapped_NoCap(m, ids) == m \cup {ids[i] : i \in 1..Len(ids)}

\* sgroupMap after "for _, id := range sgResult { if len(sgroupMap) < 10
\* { sgroupMap[id] = id } }"
RECURSIVE MergeCapped(_, _)
MergeCapped(m, ids) ==
    IF ids = <<>> THEN m
    ELSE MergeCapped(IF Cardinality(m) < SgCap THEN m \cup {Head(ids)}
                     ELSE m,
                     Tail(ids))

\* the list built by "for _, v := range sgroupMap { if len(sgroups) < 10
\* { append } else { break } }": the first 10 keys in each possible order
SgroupsOfMap(m) == {Truncate(o, SgCap) : o \in MapRangeOrders(m)}

\* the list built by "for i, sgroup := range instance.SecurityGroups
\* { if i < 10 { append } }" of the prior revision
SgroupsByIndex(groups) == Truncate(groups, SgCap)

\* the subnets loop starting at the second subnet
RECURSIVE SubnetsOfFirstVpc_SkipFirst(_, _, _)
SubnetsOfFirstVpc_SkipFirst(sns, vpcId, i) ==
    IF i > Len(sns) THEN <<>>
    ELSE (IF i - 1 > 0 /\ i - 1 < SubnetCap /\ sns[i].VpcId = vpcId
          THEN <<sns[i].SubnetId>> ELSE <<>>)
         \o SubnetsOfFirstVpc_SkipFirst(sns, vpcId, i + 1)

\* the subnets loop without the index bound
RECURSIVE SubnetsOfFirstVpc_NoCap(_, _, _)
SubnetsOfFirstVpc_NoCap(sns, vpcId, i) ==
    IF i > Len(sns) THEN <<>>
    ELSE (IF sns[i].VpcId = vpcId THEN <<sns[i].SubnetId>> ELSE <<>>)
         \o SubnetsOfFirstVpc_NoCap(sns, vpcId, i + 1)

\* the subnets loop of vpcConfigForNet: the identifiers of the subnets at
\* the indices below 10 whose VPC is that of the first subnet
RECURSIVE SubnetsOfFirstVpc(_, _, _)
SubnetsOfFirstVpc(sns, vpcId, i) ==
    IF i > Len(sns) THEN <<>>
    ELSE (IF i - 1 < SubnetCap /\ sns[i].VpcId = vpcId
          THEN <<sns[i].SubnetId>> ELSE <<>>)
         \o SubnetsOfFirstVpc(sns, vpcId, i + 1)

\* the loop dereferences subnet.VpcId at every index below 10
SubnetsLoopPanics(sns) ==
    \E i \in 1..Min(Len(sns), SubnetCap) : sns[i].VpcId = Nil

----------------------------------------------------------------------------
(* The network resolver: the code between two provider queries.  A frame   *)
(* holds the locals of the call chain; each operator returns the frames    *)
(* the code may reach when it sends its next query or returns.             *)

Returned(fr, o, e, in) ==
    [fr EXCEPT !.pc = "return", !.outcome = o, !.err = e, !.input = in]
Failed(fr, e)  == Returned(fr, "error", e, NoInput)
Panicked(fr)   == Returned(fr, "panic", NoError, NoInput)
\* buildRunTaskInput lines 816-823 after constructFargateVpcConfig succeeded
Resolved(fr, cfg) == Returned(fr, "ok", NoError, RunTaskInput("FARGATE", cfg))

\* the mode constructFargateVpcConfig selects: the FilterMode field at head,
\* the first non-empty filter group in the prior revision
ModeOf(b, p) ==
    IF b = "head" THEN p.FilterMode
    ELSE IF Len(p.VpcHostFilters) > 0 THEN FilterModeHost
    ELSE IF Len(p.VpcNetFilters) > 0 THEN FilterModeNetwork
    ELSE FilterModeCluster

\* constructFargateVpcConfig up to the first query of the selected mode
constructFargateVpcConfig(b, p, fr) ==
    IF ModeOf(b, p) = FilterModeHost
    THEN [fr EXCEPT !.pc = "DescribeInstances", !.filters = p.VpcHostFilters]
    ELSE IF ModeOf(b, p) = FilterModeNetwork
    THEN [fr EXCEPT !.pc = "DescribeSubnets", !.filters = p.VpcNetFilters]
    ELSE [fr EXCEPT !.pc = "ListContainerInstances"]

\* buildRunTaskInput lines 808-812: thread the VPC filter, if any, into the
\* global filters and resolve.  The *ec2.Filter is a list of no filter
\* (nil) or one.
WithVpcsFilter(b, p, fr, vpcsFilter) ==
    constructFargateVpcConfig(b, p,
        [fr EXCEPT !.ctx.AnyFilters = @ \o vpcsFilter])

\* buildRunTaskInput up to the first provider query, with restrictToVpcs up
\* to its DescribeVpcs request (the prior revision has no restrictToVpcs)
buildRunTaskInput(b, p, fr) ==
    IF ~p.LaunchFargate
    THEN Returned(fr, "ok", NoError, RunTaskInput("EC2", NoConfig))
    ELSE IF b = "head" /\ p.DoFilterVpc
    THEN IF Len(p.VpcFilters) > 0 /\ p.VpcFilters[1].Name = FilterVpcId
         THEN WithVpcsFilter(b, p, fr, <<p.VpcFilters[1]>>)
         ELSE [fr EXCEPT !.pc = "DescribeVpcs"]
    ELSE WithVpcsFilter(b, p, fr, <<>>)

\* restrictToVpcs adding the vpc-id filter whatever the number of VPCs
restrictToVpcs_AlwaysFilter(b, p, fr, resp) ==
    IF resp.st = "err" THEN Failed(fr, QueryError("DescribeVpcs"))
    ELSE WithVpcsFilter(b, p, fr, <<Filter(FilterVpcId, resp.val)>>)

\* restrictToVpcs after the DescribeVpcs response
restrictToVpcs(b, p, fr, resp) ==
    IF resp.st = "err" THEN Failed(fr, QueryError("DescribeVpcs"))
    ELSE IF Len(resp.val) > 0
    THEN WithVpcsFilter(b, p, fr, <<Filter(FilterVpcId, resp.val)>>)
    ELSE WithVpcsFilter(b, p, fr, <<>>)

\* the filters a query carries: the global filters are appended at head
QueryFilters(b, fr, fs) == IF b = "head" THEN fs \o fr.ctx.AnyFilters ELSE fs

\* vpcConfigForCluster after the ListContainerInstances response
vpcConfigForCluster_Listed(p, fr, resp) ==
    IF resp.st = "err" THEN Failed(fr, QueryError("ListContainerInstances"))
    ELSE IF Len(resp.val) > 0
    THEN [fr EXCEPT !.pc = "DescribeContainerInstances"]
    ELSE Failed(fr, MessageError(NoContainerInstancesMessage(p.Cluster)))

\* the Ec2InstanceId values that are not nil, in order
RECURSIVE InstanceIdsOf(_)
InstanceIdsOf(cis) ==
    IF cis = <<>> THEN <<>>
    ELSE (IF Head(cis).Ec2InstanceId # Nil
          THEN <<Head(cis).Ec2InstanceId>> ELSE <<>>)
         \o InstanceIdsOf(Tail(cis))

\* vpcConfigForCluster after the DescribeContainerInstances response
vpcConfigForCluster_Described(b, p, fr, resp) ==
    IF resp.st = "err"
    THEN Failed(fr, QueryError("DescribeContainerInstances"))
    ELSE IF Len(resp.val) > 0
    THEN IF b = "head"
         THEN [fr EXCEPT !.pc = "DescribeInstances",
                  !.filters = <<Filter(FilterInstanceId,
                                       InstanceIdsOf(resp.val))>>]
         ELSE IF resp.val[1].Ec2InstanceId = Nil THEN Panicked(fr)
         ELSE [fr EXCEPT !.pc = "DescribeInstances",
                  !.filters = <<ParseEc2FilterPrior(
                                  resp.val[1].Ec2InstanceId, Nil).filter>>]
    ELSE Failed(fr, MessageError(NoContainerInstancesMessage(p.Cluster)))

\* vpcConfigForHost after the DescribeInstances response
vpcConfigForHost(b, p, fr, resp) ==
    IF resp.st = "err" THEN {Failed(fr, QueryError("DescribeInstances"))}
    ELSE IF Len(resp.val) > 0 /\ Len(resp.val[1].Instances) > 0
    THEN LET inst == resp.val[1].Instances[1]
             toSg == [fr EXCEPT !.pc = "DescribeSecurityGroups",
                                !.instance = inst,
                                !.subnets = <<inst.SubnetId>>]
         IN  IF inst.SubnetId = Nil THEN {Panicked(fr)}
             ELSE IF b = "head"
             THEN IF p.DoFilterSgs THEN {toSg}
                  ELSE {Resolved(fr, NetworkConfiguration(
                                <<inst.SubnetId>>, sg, p.NetPublicIp)) :
                            sg \in SgroupsOfMap(Range(inst.SecurityGroups))}
             ELSE IF Len(p.VpcSgFilters) > 0 THEN {toSg}
                  ELSE {Resolved(fr, NetworkConfiguration(
                                <<inst.SubnetId>>,
                                SgroupsByIndex(inst.SecurityGroups),
                                p.NetPublicIp))}
    ELSE {Failed(fr, MessageError(NoInstanceMessage(fr.filters)))}

\* vpcConfigForNet after the DescribeSubnets response; sent is the filter
\* list of the request (head logs sent[0] when the query failed)
vpcConfigForNet(b, p, fr, sent, resp) ==
    IF resp.st = "err"
    THEN IF b = "head" /\ Len(sent) = 0 THEN Panicked(fr)
         ELSE Failed(fr, QueryError("DescribeSubnets"))
    ELSE IF Len(resp.val) > 0 /\ resp.val[1].VpcId # Nil
    THEN IF SubnetsLoopPanics(resp.val) THEN Panicked(fr)
         ELSE LET sn == SubnetsOfFirstVpc(resp.val, resp.val[1].VpcId, 1)
              IN  IF b = "head" \/ Len(p.VpcSgFilters) > 0
                  THEN [fr EXCEPT !.pc = "DescribeSecurityGroups",
                                  !.subnets = sn]
                  ELSE Resolved(fr, NetworkConfiguration(
                                        sn, <<>>, p.NetPublicIp))
    ELSE Failed(fr, MessageError(NoSubnetMessage(fr.filters)))

\* the caller of secGroupsQuery after the DescribeSecurityGroups response:
\* vpcConfigForHost when an instance was matched, else vpcConfigForNet
secGroupsQuery(b, p, fr, resp) ==
    IF resp.st = "err"
    THEN {Failed(fr, QueryError("DescribeSecurityGroups"))}
    ELSE IF fr.instance # NoInstance
    THEN IF b = "head"
         THEN {Resolved(fr, NetworkConfiguration(
                                fr.subnets, sg, p.NetPublicIp)) :
                  sg \in SgroupsOfMap(
                            MergeCapped(Range(fr.instance.SecurityGroups),
                                        resp.val))}
         ELSE {Resolved(fr, NetworkConfiguration(
                                fr.subnets, resp.val, p.NetPublicIp))}
    ELSE IF b = "head"
         THEN {Resolved(fr, NetworkConfiguration(
                      fr.subnets, Truncate(resp.val, SgCap), p.NetPublicIp))}
         ELSE {Resolved(fr, NetworkConfiguration(
                                fr.subnets, resp.val, p.NetPublicIp))}

----------------------------------------------------------------------------
(* Inputs of the parser *)

MaxName == 1    \* characters drawn freely before the optional ",Values="
MaxVals == 3    \* characters drawn freely after it

Chars == {"a", "b", "=", ","}

\* all strings over Chars of length at most n
RECURSIVE Strs(_)
Strs(n) ==
    IF n = 0 THEN {<<>>}
    ELSE LET S == Strs(n - 1)
         IN  S \cup {Append(s, c) : s \in S, c \in Chars}

Heads == {<<>>, Str_Name, Str_Dash, Str_i, Str_subnet, Str_vpc, Str_sg}
Mids  == {<<>>, Str_Values}

\* a token is a head, a free part, optionally ",Values=", and a free part
Tokens ==
    {h \o x \o m \o v : h \in Heads, x \in Strs(MaxName),
                        m \in Mids, v \in Strs(MaxVals)}

Defaults == {Nil, FilterTagName}

----------------------------------------------------------------------------
(* Inputs of the resolver *)

MaxSubnets == 11    \* most subnets in a DescribeSubnets response
MaxGroups  == 11    \* most distinct security groups attached to an instance

VpcA  == Str_vpc \o <<"a">>
VpcB  == Str_vpc \o <<"b">>
InstA == Str_i \o <<"a">>
InstB == Str_i \o <<"b">>
SubnetIdOf(n) == Str_subnet \o <<ToString(n)>>
GroupIdOf(n)  == Str_sg \o <<ToString(n)>>
ClusterName   == <<"c">>

\* command-line tokens that follow the -f options
TokTag    == <<"a">>
TokAny    == <<"a", "=", "b">>
TokVpc    == VpcA
TokSg     == GroupIdOf(1)
TokInst   == InstA
TokSubnet == SubnetIdOf(1)

\* the option groups a command line may carry
AnyArgs  == {<<>>, <<TokAny>>}
VpcArgs  == {[do |-> FALSE, toks |-> <<>>], [do |-> TRUE, toks |-> <<>>],
             [do |-> TRUE, toks |-> <<TokVpc>>],
             [do |-> TRUE, toks |-> <<TokTag>>],
             [do |-> TRUE, toks |-> <<TokTag, TokVpc>>]}
SgArgs   == {[do |-> FALSE, toks |-> <<>>], [do |-> TRUE, toks |-> <<>>],
             [do |-> TRUE, toks |-> <<TokSg>>],
             [do |-> FALSE, toks |-> <<TokSg>>]}
ModeArgs == {[mode |-> FilterModeCluster, host |-> <<>>, net |-> <<>>],
             [mode |-> FilterModeHost, host |-> <<TokInst>>, net |-> <<>>],
             [mode |-> FilterModeHost, host |-> <<>>, net |-> <<>>],
             [mode |-> FilterModeNetwork, host |-> <<>>,
              net |-> <<TokSubnet>>],
             [mode |-> FilterModeNetwork, host |-> <<>>, net |-> <<>>]}

\* the ParsedArgs that parseArgs builds from these option groups
ParsedArgs(b, fargate, any, vpc, sg, m, ip) ==
    [LaunchFargate  |-> fargate,
     Cluster        |-> ClusterName,
     FilterMode     |-> m.mode,
     AnyFilters     |-> readFilterArgs(b, Nil, any),
     VpcFilters     |-> readFilterArgs(b, FilterTagName, vpc.toks),
     DoFilterVpc    |-> vpc.do,
     VpcSgFilters   |-> readFilterArgs(b, FilterTagName, sg.toks),
     DoFilterSgs    |-> sg.do,
     VpcNetFilters  |-> readFilterArgs(b, FilterTagName, m.net),
     VpcHostFilters |-> readFilterArgs(b, FilterTagName, m.host),
     NetPublicIp    |-> ip]

PrefsOf(b) ==
    {ParsedArgs(b, TRUE, any, vpc, sg, m, ip) :
        any \in AnyArgs, vpc \in VpcArgs, sg \in SgArgs, m \in ModeArgs,
        ip \in BOOLEAN}
    \cup {ParsedArgs(b, FALSE, <<>>, [do |-> FALSE, toks |-> <<>>],
                     [do |-> FALSE, toks |-> <<>>],
                     [mode |-> FilterModeCluster, host |-> <<>>,
                      net |-> <<>>], FALSE)}

\* <<sg-lo, ..., sg-hi>>
GroupRange(lo, hi) == [i \in 1..(hi - lo + 1) |-> GroupIdOf(lo + i - 1)]
GroupList(n) == GroupRange(1, n)

\* the sizes near the cap and two small ones
SizesUpTo(cap, max) == {n \in 0..max : n = 0 \/ n = 2 \/ n >= cap - 1}

\* the SecurityGroups of an instance: n distinct groups, the first of them
\* possibly listed twice
InstanceGroupLists ==
    {GroupList(n) : n \in SizesUpTo(SgCap, MaxGroups)}
    \cup {<<GroupIdOf(1)>> \o GroupList(n) :
            n \in SizesUpTo(SgCap, MaxGroups) \ {0}}

Instance(sn, groups) == [SubnetId |-> sn, SecurityGroups |-> groups]
Reservation(insts)   == [Instances |-> insts]

\* an instance without a subnet is one that has been terminated
Instances ==
    {Instance(SubnetIdOf(1), g) : g \in InstanceGroupLists}
    \cup {Instance(Nil, GroupList(1))}

DescribeInstancesResponses ==
    {ErrResp, OkResp(<<>>), OkResp(<<Reservation(<<>>)>>),
     OkResp(<<Reservation(<<>>),
              Reservation(<<Instance(SubnetIdOf(1), GroupList(1))>>)>>),
     OkResp(<<Reservation(<<Instance(SubnetIdOf(2), GroupList(2)),
                            Instance(SubnetIdOf(1), GroupList(1))>>)>>)}
    \cup {OkResp(<<Reservation(<<i>>)>>) : i \in Instances}

Subnet(vpc, id) == [VpcId |-> vpc, SubnetId |-> id]

\* n subnets of VpcA, subnet-1 ... subnet-n in this order, the one at
\* position k (if k > 0) having the VPC other instead
SubnetList(n, k, other) ==
    [i \in 1..n |-> Subnet(IF i = k THEN other ELSE VpcA, SubnetIdOf(i))]

DescribeSubnetsResponses ==
    {ErrResp}
    \cup {OkResp(SubnetList(n, 0, VpcA)) :
            n \in SizesUpTo(SubnetCap, MaxSubnets)}
    \cup {OkResp(SubnetList(n, k, other)) :
            n \in SizesUpTo(SubnetCap, MaxSubnets) \ {0},
            k \in 1..MaxSubnets, other \in {VpcB, Nil}}

DescribeSecurityGroupsResponses ==
    {ErrResp, OkResp(<<>>), OkResp(GroupList(2)),
     OkResp(<<GroupIdOf(2), GroupIdOf(2)>>),
     OkResp(GroupRange(SgCap, MaxGroups + 1)),
     OkResp(GroupList(MaxGroups))}

DescribeVpcsResponses ==
    {ErrResp, OkResp(<<>>), OkResp(<<VpcA>>), OkResp(<<VpcA, VpcB>>)}

ListContainerInstancesResponses ==
    {ErrResp, OkResp(<<>>), OkResp(<<"arn-1", "arn-2">>)}

ContainerInstance(id) == [Ec2InstanceId |-> id]

DescribeContainerInstancesResponses ==
    {ErrResp, OkResp(<<>>),
     OkResp(<<ContainerInstance(Nil)>>),
     OkResp(<<ContainerInstance(InstA)>>),
     OkResp(<<ContainerInstance(Nil), ContainerInstance(InstA)>>),
     OkResp(<<ContainerInstance(InstA), ContainerInstance(InstB)>>)}

----------------------------------------------------------------------------
(* Both machines share the variables; the one that does not run is idle *)

ParseIdle ==
    /\ filter = <<>>
    /\ defaultFilter = Nil
    /\ parsePc = "idle"
    /\ valid = FALSE
    /\ parsed = EmptyFilter

NoResults == [op \in Ops |-> NoResp]

NetIdle ==
    /\ prefs = ParsedArgs("head", FALSE, <<>>, [do |-> FALSE, toks |-> <<>>],
                          [do |-> FALSE, toks |-> <<>>],
                          [mode |-> FilterModeCluster, host |-> <<>>,
                           net |-> <<>>], FALSE)
    /\ ctx = [AnyFilters |-> <<>>]
    /\ pc = "idle"
    /\ filters = <<>>
    /\ instance = NoInstance
    /\ subnets = <<>>
    /\ calls = <<>>
    /\ results = NoResults
    /\ outcome = "running"
    /\ err = NoError
    /\ input = NoInput

\* before "go GoTailLogs": no goroutine, the zero sync.WaitGroup
TailIdle ==
    /\ tailPc = "idle"
    /\ firstRun = TRUE
    /\ wg = 0
    /\ passes = 0
    /\ okPasses = 0
    /\ doneCalls = 0

MainIdle ==
    /\ WaitStopped = FALSE
    /\ StreamLog = FALSE
    /\ mainPc = "idle"
    /\ taskStopped = FALSE
    /\ containers = <<>>
    /\ exited = FALSE
    /\ exitBy = "none"
    /\ exitCode = 0
    /\ sigs = <<>>
    /\ notified = FALSE
    /\ sigPc = "idle"
    /\ sigints = 0
    /\ stopCalls = 0
    /\ stopOk = FALSE
    /\ TailIdle

\* jvshim: a ParsedArgs before parseArgs has run
NoJvPrefs ==
    [ShowHelp |-> FALSE, ShowMem |-> FALSE, ShowJava |-> FALSE,
     TestLimit |-> 0, JavaCmd |-> "", PrefMaxMeta |-> 0, PrefMeta |-> 0,
     PrefInitHeap |-> 0, PrefMaxHeap |-> 0, PassthruArgs |-> <<>>,
     MemPrefArgs |-> <<>>, ProgramArgs |-> <<>>]

JvIdle ==
    /\ osArgs = <<>>
    /\ TestLimit = 0
    /\ cgroupLimit = 0
    /\ jvPc = "idle"
    /\ jvPrefs = NoJvPrefs
    /\ totalLimit = 0
    /\ jvmSet = <<>>
    /\ argv = <<>>

\* the locals of parseArgs before the loop over os.Args
NoOverridePrefs ==
    [ExecRoleArn |-> <<>>, TaskRoleArn |-> <<>>, ShellPrefix |-> <<>>,
     NoShell |-> FALSE, OverridesCmd |-> FALSE, CmdOverride |-> <<>>]

\* ecs.TaskOverride{} with an ecs.ContainerOverride without Command
NoTaskOverride ==
    [ExecutionRoleArn |-> <<>>, TaskRoleArn |-> <<>>,
     Command |-> [set |-> FALSE, val |-> <<>>]]

OvIdle ==
    /\ ovArgs = <<>>
    /\ ovPc = "idle"
    /\ ovOutcome = "running"
    /\ ovPrefs = NoOverridePrefs
    /\ tsk = NoTaskOverride

\* make(map[string]string, 0): a Go map is a function of its keys
EmptyMap == [k \in {} |-> <<>>]

\* execCmd lines 199-201: the KmsMap of two empty maps
NoKmsMap == [aliasesToKeys |-> EmptyMap, keysToAliases |-> EmptyMap]

\* ParsedArgs of a command line without options
NoSsmPrefs ==
    [NoStoreSecureString |-> FALSE, NoPutSecureString |-> FALSE,
     KeyIdPutAll |-> <<>>, OverwritePut |-> FALSE, ClearOnPut |-> FALSE]

SsmIdle ==
    /\ ssmCmd = "none"
    /\ ssmPrefs = NoSsmPrefs
    /\ ssmPc = "idle"
    /\ dict = EmptyMap
    /\ params = <<>>
    /\ kmsMap = NoKmsMap
    /\ ssmSent = <<>>

RestIdle == MainIdle /\ JvIdle /\ OvIdle /\ SsmIdle

vars == <<build, parseVars, netVars, restVars>>

----------------------------------------------------------------------------
(* The parser as a state machine: one call of ParseEc2Filter *)

InitParse ==
    /\ build \in Builds
    /\ filter \in Tokens
    /\ defaultFilter \in Defaults
    /\ parsePc = "call"
    /\ valid = FALSE
    /\ parsed = EmptyFilter
    /\ NetIdle
    /\ RestIdle

Parse ==
    /\ parsePc = "call"
    /\ LET r == ParseEc2Filter(build, filter, defaultFilter)
       IN  /\ valid' = r.valid
           /\ parsed' = r.filter
    /\ parsePc' = "done"
    /\ UNCHANGED <<build, filter, defaultFilter, netVars, restVars>>

NextParse == Parse

SpecParse == InitParse /\ [][NextParse]_vars

----------------------------------------------------------------------------
(* The resolver as a state machine: one call of buildRunTaskInput, one     *)
(* action per provider query.  Each action sends the query, draws the      *)
(* response and runs the code up to the next query or the return.          *)

\* the locals of the call chain
Frame ==
    [pc |-> pc, filters |-> filters, instance |-> instance,
     subnets |-> subnets, ctx |-> ctx, outcome |-> outcome, err |-> err,
     input |-> input]

Become(fr) ==
    /\ pc' = fr.pc
    /\ filters' = fr.filters
    /\ instance' = fr.instance
    /\ subnets' = fr.subnets
    /\ ctx' = fr.ctx
    /\ outcome' = fr.outcome
    /\ err' = fr.err
    /\ input' = fr.input

\* Send() of a request: the query and its arguments are on record, and so is
\* the response
Send(op, args, resp) ==
    /\ calls' = Append(calls, [op |-> op, args |-> args])
    /\ results' = [results EXCEPT ![op] = resp]

Init ==
    /\ build \in Builds
    /\ prefs \in PrefsOf(build)
    /\ ctx = [AnyFilters |-> prefs.AnyFilters]
    /\ pc = "buildRunTaskInput"
    /\ filters = <<>>
    /\ instance = NoInstance
    /\ subnets = <<>>
    /\ calls = <<>>
    /\ results = NoResults
    /\ outcome = "running"
    /\ err = NoError
    /\ input = NoInput
    /\ ParseIdle
    /\ RestIdle

BuildRunTaskInput ==
    /\ pc = "buildRunTaskInput"
    /\ Become(buildRunTaskInput(build, prefs, Frame))
    /\ UNCHANGED <<build, prefs, calls, results, parseVars, restVars>>

DescribeVpcs ==
    /\ pc = "DescribeVpcs"
    /\ \E resp \in DescribeVpcsResponses :
        /\ Send("DescribeVpcs", prefs.VpcFilters \o ctx.AnyFilters, resp)
        /\ Become(restrictToVpcs(build, prefs, Frame, resp))
    /\ UNCHANGED <<build, prefs, parseVars, restVars>>

ListContainerInstances ==
    /\ pc = "ListContainerInstances"
    /\ \E resp \in ListContainerInstancesResponses :
        /\ Send("ListContainerInstances", <<prefs.Cluster>>, resp)
        /\ Become(vpcConfigForCluster_Listed(prefs, Frame, resp))
    /\ UNCHANGED <<build, prefs, parseVars, restVars>>

\* head describes every listed container instance, the prior revision the
\* first one only
DescribeContainerInstances ==
    /\ pc = "DescribeContainerInstances"
    /\ \E resp \in DescribeContainerInstancesResponses :
        /\ Send("DescribeContainerInstances",
                LET arns == results["ListContainerInstances"].val
                IN  IF build = "head" THEN arns ELSE <<arns[1]>>,
                resp)
        /\ Become(vpcConfigForCluster_Described(build, prefs, Frame, resp))
    /\ UNCHANGED <<build, prefs, parseVars, restVars>>

DescribeInstances ==
    /\ pc = "DescribeInstances"
    /\ \E resp \in DescribeInstancesResponses :
        /\ Send("DescribeInstances", QueryFilters(build, Frame, filters),
                resp)
        /\ \E fr \in vpcConfigForHost(build, prefs, Frame, resp) : Become(fr)
    /\ UNCHANGED <<build, prefs, parseVars, restVars>>

DescribeSubnets ==
    /\ pc = "DescribeSubnets"
    /\ \E resp \in DescribeSubnetsResponses :
        LET sent == QueryFilters(build, Frame, filters)
        IN  /\ Send("DescribeSubnets", sent, resp)
            /\ Become(vpcConfigForNet(build, prefs, Frame, sent, resp))
    /\ UNCHANGED <<build, prefs, parseVars, restVars>>

DescribeSecurityGroups ==
    /\ pc = "DescribeSecurityGroups"
    /\ \E resp \in DescribeSecurityGroupsResponses :
        /\ Send("DescribeSecurityGroups",
                QueryFilters(build, Frame, prefs.VpcSgFilters), resp)
        /\ \E fr \in secGroupsQuery(build, prefs, Frame, resp) : Become(fr)
    /\ UNCHANGED <<build, prefs, parseVars, restVars>>

Next ==
    \/ BuildRunTaskInput
    \/ DescribeVpcs
    \/ ListContainerInstances
    \/ DescribeContainerInstances
    \/ DescribeInstances
    \/ DescribeSubnets
    \/ DescribeSecurityGroups

Spec == Init /\ [][Next]_vars

----------------------------------------------------------------------------
(* Properties of the parser, checked under SpecParse *)

NoChar(s, c) == \A i \in 1..Len(s) : s[i] # c

\* vals is the list of comma-separated pieces of text, in order
IsCommaSplit(vals, text) ==
    /\ Len(vals) >= 1
    /\ \A i \in 1..Len(vals) : NoChar(vals[i], ",")
    /\ Join(vals, <<",">>) = text

\* tok has the form Name=X,Values=... with X of n >= 1 characters, no comma
IsLongForm(tok, n) ==
    /\ n >= 1
    /\ Len(tok) >= Len(Str_Name) + n + Len(Str_Values)
    /\ HasPrefix(tok, Str_Name)
    /\ NoChar(SubSeq(tok, Len(Str_Name) + 1, Len(Str_Name) + n), ",")
    /\ SubSeq(tok, Len(Str_Name) + n + 1,
              Len(Str_Name) + n + Len(Str_Values)) = Str_Values

LongForm(tok) == \E n \in 1..Len(tok) : IsLongForm(tok, n)

\* tok has the form key=..., the key being the e-1 >= 1 characters before
\* the first '='
IsShortForm(tok, e) ==
    /\ e > 1
    /\ e <= Len(tok)
    /\ tok[e] = "="
    /\ NoChar(SubSeq(tok, 1, e - 1), "=")

ShortForm(tok) == \E e \in 1..Len(tok) : IsShortForm(tok, e)

LeadingDash(tok) == tok # <<>> /\ tok[1] = "-"

ResourceIdName(tok) ==
    IF HasPrefix(tok, Str_i) THEN FilterInstanceId
    ELSE IF HasPrefix(tok, Str_subnet) THEN FilterSubnetId
    ELSE IF HasPrefix(tok, Str_vpc) THEN FilterVpcId
    ELSE IF HasPrefix(tok, Str_sg) THEN FilterSecurityGroupId
    ELSE Nil

\* C1: every token that begins with '-' is reported "not recognized",
\* whatever follows the dash and whether or not a fallback name is supplied.
C1_DashNeverRecognized ==
    (parsePc = "done" /\ LeadingDash(filter)) => ~valid

\* C2: a token Name=X,Values=A,B (X without commas) is recognized with the
\* name X and, as values, the comma-separated pieces after "Values=", in
\* order and with duplicates kept.
C2_LongFormNameAndValues ==
    parsePc = "done" =>
        \A n \in 1..Len(filter) :
            IsLongForm(filter, n) =>
                /\ valid
                /\ parsed.Name =
                     SubSeq(filter, Len(Str_Name) + 1, Len(Str_Name) + n)
                /\ IsCommaSplit(parsed.Values,
                     Tail_(filter, Len(Str_Name) + n + Len(Str_Values)))

\* C3: a token key=v1,v2 (key not empty) that is not in long form is
\* recognized with the text before the first '=' as name and the
\* comma-separated pieces of the text after that '=' as values, in order.
C3_ShortFormNameAndValues ==
    parsePc = "done" =>
        \A e \in 1..Len(filter) :
            (IsShortForm(filter, e) /\ ~LongForm(filter)) =>
                /\ valid
                /\ parsed.Name = SubSeq(filter, 1, e - 1)
                /\ IsCommaSplit(parsed.Values, Tail_(filter, e))

\* a short-form token with two different values has been parsed; so has one
\* that begins with a dash, and one whose value text holds a second '='
C3_Witness ==
    /\ parsePc = "done"
    /\ ShortForm(filter) /\ ~LongForm(filter)
    /\ Len(parsed.Values) = 2
    /\ parsed.Values[1] # parsed.Values[2]
    /\ parsed.Values[1] # <<>>
    /\ ~NoChar(parsed.Values[2], "=")

\* C4: a token without '=' that starts with i-, subnet-, vpc- or sg- is
\* recognized with the single value token and the name instance-id,
\* subnet-id, vpc-id or group-id, whatever the fallback name.
C4_ResourceIdShorthand ==
    (parsePc = "done" /\ NoChar(filter, "=") /\ ResourceIdName(filter) # Nil)
        => /\ valid
           /\ parsed = Filter(ResourceIdName(filter), <<filter>>)

\* C5: a token that is not in long form, not in short form, has no leading
\* dash and no resource-ID prefix is recognized exactly when a fallback name
\* was supplied, and then the Filter has the fallback name and the token as
\* its only value.
C5_FallbackOrReject ==
    (/\ parsePc = "done"
     /\ ~LongForm(filter) /\ ~ShortForm(filter) /\ ~LeadingDash(filter)
     /\ ResourceIdName(filter) = Nil)
        => /\ valid <=> (defaultFilter # Nil)
           /\ valid => parsed = Filter(defaultFilter, <<filter>>)
           /\ ~valid => parsed = EmptyFilter

\* a plain token was parsed with the fallback tag:Name
C5_Witness ==
    /\ parsePc = "done"
    /\ ~LongForm(filter) /\ ~ShortForm(filter) /\ ~LeadingDash(filter)
    /\ ResourceIdName(filter) = Nil
    /\ filter # <<>>
    /\ defaultFilter = FilterTagName
    /\ valid

----------------------------------------------------------------------------
(* Properties of the resolver, checked under Spec *)

Done == pc = "return"

\* buildRunTaskInput returned a Fargate network configuration
ResolvedOk == Done /\ outcome = "ok" /\ input.LaunchType = "FARGATE"

Config == input.NetworkConfiguration

ExplicitHost   == prefs.LaunchFargate /\ ModeOf(build, prefs) = FilterModeHost
ExplicitSubnet ==
    prefs.LaunchFargate /\ ModeOf(build, prefs) = FilterModeNetwork

Received(op) == results[op].st = "ok"
Issued(op)   == \E i \in 1..Len(calls) : calls[i].op = op

\* the query matched no subnet / no instance to take a subnet from
NoSubnetMatched ==
    \/ /\ Received("DescribeSubnets")
       /\ \/ results["DescribeSubnets"].val = <<>>
          \/ results["DescribeSubnets"].val[1].VpcId = Nil
    \/ /\ Received("DescribeInstances")
       /\ \/ results["DescribeInstances"].val = <<>>
          \/ results["DescribeInstances"].val[1].Instances = <<>>

C7_QueryErrorPropagates ==
    \A op \in Ops :
        results[op] = ErrResp =>
            /\ Done
            /\ outcome = "error"
            /\ err = QueryError(op)
            /\ input = NoInput
            /\ calls[Len(calls)].op = op

\* s occurs in t as a contiguous piece
Contains(t, s) ==
    \E i \in 0..(Len(t) - Len(s)) : SubSeq(t, i + 1, i + Len(s)) = s

NoInstanceMatched ==
    /\ Received("DescribeInstances")
    /\ \/ results["DescribeInstances"].val = <<>>
       \/ results["DescribeInstances"].val[1].Instances = <<>>

\* C8: explicit-host resolution whose describe-instances query returns no
\* reservation, or a first reservation without instance, fails with an
\* error whose message contains FilterString of the host filters, and sends
\* no security-group query.
C8_NoInstanceError ==
    (ExplicitHost /\ NoInstanceMatched) =>
        /\ Done
        /\ outcome = "error"
        /\ input = NoInput
        /\ err.kind = "message"
        /\ Contains(err.msg, FilterString(prefs.VpcHostFilters))
        /\ ~Issued("DescribeSecurityGroups")

\* host filters were given, the security-group option too, and the first
\* reservation came back empty although a second one held an instance
C8_Witness ==
    /\ ExplicitHost
    /\ prefs.VpcHostFilters # <<>>
    /\ prefs.DoFilterSgs /\ prefs.VpcSgFilters # <<>>
    /\ Received("DescribeInstances")
    /\ Len(results["DescribeInstances"].val) = 2
    /\ results["DescribeInstances"].val[1].Instances = <<>>
    /\ Done /\ outcome = "error"

\* C9: in explicit-subnet resolution every subnet identifier of the result
\* is that of a returned subnet in the VPC of the first returned subnet, and
\* the result holds at most 10 of them.
C9_SubnetsOfFirstVpcCapped ==
    (ExplicitSubnet /\ ResolvedOk) =>
        LET sns == results["DescribeSubnets"].val
        IN  /\ \A j \in 1..Len(Config.Subnets) :
                  \E i \in 1..Len(sns) :
                      /\ sns[i].SubnetId = Config.Subnets[j]
                      /\ sns[i].VpcId = sns[1].VpcId
            /\ Len(Config.Subnets) <= 10

\* more than 10 subnets of two VPCs were returned, and 10 retained
C9_Witness ==
    /\ ExplicitSubnet /\ ResolvedOk
    /\ LET sns == results["DescribeSubnets"].val
       IN  /\ Len(sns) > 10
           /\ \E i \in 1..Len(sns) : sns[i].VpcId # sns[1].VpcId
    /\ Len(Config.Subnets) = 10

\* no security-group option on the command line
NoSgOption == ~prefs.DoFilterSgs /\ prefs.VpcSgFilters = <<>>

MatchedInstance == results["DescribeInstances"].val[1].Instances[1]

NoDuplicates(s) == \A i, j \in 1..Len(s) : s[i] = s[j] => i = j

\* C10: explicit-host resolution without security-group option, the matched
\* instance having more than 10 distinct groups: the security-group list
\* has exactly 10 entries, all attached to the instance, none twice.
C10_TenInstanceGroups ==
    (/\ ExplicitHost /\ NoSgOption /\ ResolvedOk
     /\ Cardinality(Range(MatchedInstance.SecurityGroups)) > 10)
        => /\ Len(Config.SecurityGroups) = 10
           /\ Range(Config.SecurityGroups)
                 \subseteq Range(MatchedInstance.SecurityGroups)
           /\ NoDuplicates(Config.SecurityGroups)

ClusterImplied ==
    prefs.LaunchFargate /\ ModeOf(build, prefs) = FilterModeCluster

FargateHint == <<". please specify --fargate:net or --fargate:host">>

\* C11: cluster-implied resolution whose list-container-instances query
\* returns zero instance ARNs fails with an error that names the cluster
\* and tells the operator to specify --fargate:net or --fargate:host; no
\* describe-container-instances and no describe-instances query is issued.
C11_NoContainerInstancesError ==
    (/\ ClusterImplied
     /\ Received("ListContainerInstances")
     /\ results["ListContainerInstances"].val = <<>>)
        => /\ Done
           /\ outcome = "error"
           /\ input = NoInput
           /\ err.kind = "message"
           /\ Contains(err.msg, prefs.Cluster)
           /\ Contains(err.msg, FargateHint)
           /\ ~Issued("DescribeContainerInstances")
           /\ ~Issued("DescribeInstances")

\* the cluster listed no container instance and resolution has failed
C11_Witness ==
    /\ ClusterImplied
    /\ Received("ListContainerInstances")
    /\ results["ListContainerInstances"].val = <<>>
    /\ Done /\ outcome = "error"
    /\ calls[Len(calls)].op = "ListContainerInstances"

\* the first query of the selected mode when no VPC restriction applies
FirstQueryUnrestricted ==
    IF ModeOf(build, prefs) = FilterModeHost
    THEN [op |-> "DescribeInstances",
          args |-> prefs.VpcHostFilters \o prefs.AnyFilters]
    ELSE IF ModeOf(build, prefs) = FilterModeNetwork
    THEN [op |-> "DescribeSubnets",
          args |-> prefs.VpcNetFilters \o prefs.AnyFilters]
    ELSE [op |-> "ListContainerInstances", args |-> <<prefs.Cluster>>]

NoVpcMatched ==
    Received("DescribeVpcs") /\ results["DescribeVpcs"].val = <<>>

\* C12: when VPC scoping is requested and the describe-vpcs query succeeds
\* with zero VPCs, no vpc-id filter is added to the global filters and
\* resolution goes on into the selected mode: the query after describe-vpcs
\* is the first query of that mode, with the filters it carries when no VPC
\* scoping is requested.
C12_NoVpcNoRestriction ==
    NoVpcMatched =>
        /\ prefs.DoFilterVpc
        /\ ctx.AnyFilters = prefs.AnyFilters
        /\ calls[1].op = "DescribeVpcs"
        /\ Len(calls) = 1 =>
               outcome = "running" /\ pc = FirstQueryUnrestricted.op
        /\ Len(calls) >= 2 => calls[2] = FirstQueryUnrestricted

\* VPC scoping matched no VPC, a -f filter was given and a network
\* configuration was resolved all the same
C12_Witness ==
    /\ NoVpcMatched
    /\ prefs.AnyFilters # <<>>
    /\ ResolvedOk

----------------------------------------------------------------------------
(* main after the task was submitted: the wait for the task to stop, the   *)
(* exit code of the process, the goroutines sigintStopTask and GoTailLogs. *)

MaxSigints == 3    \* most SIGINTs delivered to the process in one run

\* passes of GoTailLogs that are counted: the counters stay at MaxPasses
MaxPasses == 3

ContainerName == "main"

\* ecs.Container of the stopped task: ExitCode and Reason are pointers, a
\* list of no value (nil) or one
Container(name, code, reason) ==
    [Name |-> name, ExitCode |-> code, Reason |-> reason]

ExitCodes == {<<>>, <<0>>, <<1>>, <<3>>}
Reasons   == {<<>>, <<"OutOfMemoryError">>}

\* the Containers of the final task: the overridden container, alone or
\* after a sidecar that exited with code 1
FinalContainers ==
    {<<Container(ContainerName, c, r)>> : c \in ExitCodes, r \in Reasons}
    \cup {<<Container("sidecar", <<1>>, <<>>),
             Container(ContainerName, c, r)>> :
               c \in ExitCodes, r \in Reasons}

\* the process ends
Exit(by, code) ==
    /\ exited' = TRUE
    /\ exitBy' = by
    /\ exitCode' = code

Running == UNCHANGED <<exited, exitBy, exitCode>>

\* main lines 544-561: the loop over finalTask.Containers
RECURSIVE ExitOfContainers(_)
ExitOfContainers(cnts) ==
    IF cnts = <<>> THEN [by |-> "log.Fatal", code |-> 1]
    ELSE IF Head(cnts).Name = ContainerName
    THEN LET cnt == Head(cnts)
             code == IF cnt.Reason # <<>> THEN 42 ELSE 0
         IN  IF cnt.ExitCode # <<>> /\ cnt.ExitCode[1] > 0
             THEN [by |-> "os.Exit", code |-> cnt.ExitCode[1]]
             ELSE [by |-> "os.Exit", code |-> code]
    ELSE ExitOfContainers(Tail(cnts))

InitMain ==
    /\ build \in Builds
    /\ WaitStopped \in BOOLEAN
    /\ StreamLog \in BOOLEAN
    /\ mainPc = "submitted"
    /\ taskStopped = FALSE
    /\ containers = <<>>
    /\ exited = FALSE
    /\ exitBy = "none"
    /\ exitCode = 0
    /\ sigs = <<>>
    /\ notified = FALSE
    /\ sigPc = "idle"
    /\ sigints = 0
    /\ stopCalls = 0
    /\ stopOk = FALSE
    /\ TailIdle
    /\ ParseIdle
    /\ NetIdle
    /\ JvIdle
    /\ OvIdle
    /\ SsmIdle

mainRest ==
    <<build, WaitStopped, StreamLog, parseVars, netVars, jvVars, ovVars,
      ssmVars>>

\* main lines 494-501: start the goroutine and attach the channel to SIGINT;
\* without --wait and --stream-log main returns
MainStart ==
    /\ ~exited /\ mainPc = "submitted"
    /\ IF WaitStopped \/ StreamLog
       THEN /\ sigPc' = "recv"
            /\ notified' = TRUE
            /\ mainPc' = IF WaitStopped THEN "wait" ELSE "stream"
            /\ Running
       ELSE /\ Exit("return", 0)
            /\ UNCHANGED <<sigPc, notified, mainPc>>
    /\ UNCHANGED <<taskStopped, containers, sigs, sigints, stopCalls, stopOk,
                   tailVars, mainRest>>

\* the provider: the task reaches STOPPED, with its containers' final state
TaskStops ==
    /\ ~exited /\ ~taskStopped /\ mainPc # "submitted"
    /\ taskStopped' = TRUE
    /\ containers' \in FinalContainers
    /\ UNCHANGED <<mainPc, exited, exitBy, exitCode, sigs, notified, sigPc,
                   sigints, stopCalls, stopOk, tailVars, mainRest>>

\* ecss.WaitUntilTasksStopped at lines 504 and 531: returns when the task
\* has stopped, or fails
WaitUntilTasksStopped ==
    /\ ~exited /\ mainPc \in {"wait", "waitStream"}
    /\ \/ /\ taskStopped
          /\ IF mainPc = "waitStream"
             THEN mainPc' = "wgWait" /\ Running
             ELSE IF StreamLog
             THEN mainPc' = "stream" /\ Running
             ELSE mainPc' = "end" /\ Exit("return", 0)
       \/ mainPc' = "end" /\ Exit("log.Fatal", 1)
    /\ UNCHANGED <<taskStopped, containers, sigs, notified, sigPc, sigints,
                   stopCalls, stopOk, tailVars, mainRest>>

\* lines 511-529: LocateAwslogsForTask, then wg.Add(1) and the log stream
\* goroutine
LocateAwslogsForTask ==
    /\ ~exited /\ mainPc = "stream"
    /\ \/ /\ mainPc' = "waitStream" /\ Running
          /\ wg' = wg + 1
          /\ tailPc' = "loop"
       \/ /\ mainPc' = "end" /\ Exit("log.Fatal", 1)
          /\ UNCHANGED <<wg, tailPc>>
    /\ UNCHANGED <<taskStopped, containers, sigs, notified, sigPc, sigints,
                   stopCalls, stopOk, firstRun, passes, okPasses, doneCalls,
                   mainRest>>

\* wg.Wait() at line 538: returns when the counter is zero
WgWait ==
    /\ ~exited /\ mainPc = "wgWait"
    /\ wg = 0
    /\ mainPc' = "describe"
    /\ UNCHANGED <<taskStopped, containers, exited, exitBy, exitCode, sigs,
                   notified, sigPc, sigints, stopCalls, stopOk, tailVars,
                   mainRest>>

\* a pass of the loop that calls group.Done() after every error-free pass
FilterLogEvents_NoFirstRun ==
    /\ ~exited /\ tailPc = "loop"
    /\ passes' = Min(passes + 1, MaxPasses)
    /\ \/ UNCHANGED <<okPasses, firstRun, wg, doneCalls, exited, exitBy,
                      exitCode>>
       \/ /\ okPasses' = Min(okPasses + 1, MaxPasses)
          /\ doneCalls' = Min(doneCalls + 1, MaxPasses)
          /\ firstRun' = FALSE
          /\ IF wg > 0 THEN wg' = wg - 1 /\ Running
             ELSE UNCHANGED wg /\ Exit("panic", 2)
    /\ UNCHANGED <<mainPc, taskStopped, containers, sigs, notified, sigPc,
                   sigints, stopCalls, stopOk, tailPc, mainRest>>

\* GoTailLogs (logs.go 114-145): one pass of the loop, a FilterLogEvents
\* request paged to its end.  The pass ends with events.Err() set or nil;
\* the first pass that ends with nil calls group.Done(), which panics on a
\* counter that is already zero.
FilterLogEvents ==
    /\ ~exited /\ tailPc = "loop"
    /\ passes' = Min(passes + 1, MaxPasses)
    /\ \/ UNCHANGED <<okPasses, firstRun, wg, doneCalls, exited, exitBy,
                      exitCode>>
       \/ /\ okPasses' = Min(okPasses + 1, MaxPasses)
          /\ IF firstRun
             THEN /\ firstRun' = FALSE
                  /\ doneCalls' = Min(doneCalls + 1, MaxPasses)
                  /\ IF wg > 0 THEN wg' = wg - 1 /\ Running
                     ELSE UNCHANGED wg /\ Exit("panic", 2)
             ELSE UNCHANGED <<firstRun, wg, doneCalls, exited, exitBy,
                              exitCode>>
    /\ UNCHANGED <<mainPc, taskStopped, containers, sigs, notified, sigPc,
                   sigints, stopCalls, stopOk, tailPc, mainRest>>

\* lines 539-562: DescribeTasks and the exit code of the process
DescribeTasks ==
    /\ ~exited /\ mainPc = "describe"
    /\ mainPc' = "end"
    /\ \/ LET e == ExitOfContainers(containers) IN Exit(e.by, e.code)
       \/ Exit("log.Fatal", 1)
    /\ UNCHANGED <<taskStopped, containers, sigs, notified, sigPc, sigints,
                   stopCalls, stopOk, tailVars, mainRest>>

\* the operator: a SIGINT is delivered to the process.  Notify sends on the
\* channel without blocking, so the signal is dropped when the channel is
\* full; a process that does not catch SIGINT is ended by it.
Sigint ==
    /\ ~exited /\ mainPc # "submitted"
    /\ sigints < MaxSigints
    /\ sigints' = sigints + 1
    /\ IF notified
       THEN /\ sigs' = IF Len(sigs) < 1 THEN Append(sigs, "SIGINT") ELSE sigs
            /\ Running
       ELSE /\ Exit("signal", 130)
            /\ UNCHANGED sigs
    /\ UNCHANGED <<mainPc, taskStopped, containers, notified, sigPc,
                   stopCalls, stopOk, tailVars, mainRest>>

\* sigintStopTask: the receive from sigs
SigRecv ==
    /\ ~exited /\ sigPc = "recv"
    /\ sigs # <<>>
    /\ sigs' = Tail(sigs)
    /\ sigPc' = "send"
    /\ UNCHANGED <<mainPc, taskStopped, containers, exited, exitBy, exitCode,
                   notified, sigints, stopCalls, stopOk, tailVars,
                   mainRest>>

\* sigintStopTask: the stop-task request and what follows it.  At head the
\* loop goes back to the receive; the prior revision returns.
StopTask ==
    /\ ~exited /\ sigPc = "send"
    /\ stopCalls' = stopCalls + 1
    /\ \/ notified' = FALSE /\ stopOk' = TRUE
       \/ UNCHANGED <<notified, stopOk>>
    /\ sigPc' = IF build = "head" THEN "recv" ELSE "done"
    /\ UNCHANGED <<mainPc, taskStopped, containers, exited, exitBy, exitCode,
                   sigs, sigints, tailVars, mainRest>>

NextMain ==
    \/ MainStart
    \/ TaskStops
    \/ WaitUntilTasksStopped
    \/ LocateAwslogsForTask
    \/ FilterLogEvents
    \/ WgWait
    \/ DescribeTasks
    \/ Sigint
    \/ SigRecv
    \/ StopTask

SpecMain == InitMain /\ [][NextMain]_vars

\* the goroutines are scheduled (GOMAXPROCS(3), line 496): sigintStopTask
\* takes its steps, and so does main, whose wait returns once the task has
\* stopped.  Nothing obliges the task to stop or the operator to interrupt.
SpecMainFair ==
    /\ SpecMain
    /\ WF_vars(SigRecv) /\ WF_vars(StopTask)
    /\ WF_vars(MainStart) /\ WF_vars(LocateAwslogsForTask)
    /\ WF_vars(WgWait) /\ WF_vars(DescribeTasks)
    /\ WF_vars(taskStopped /\ WaitUntilTasksStopped)

\* the container of the task that the run overrides
Primary ==
    CHOOSE c \in Range(containers) : c.Name = ContainerName

TerminatedNormally ==
    /\ taskStopped
    /\ Primary.ExitCode # <<>>
    /\ Primary.Reason = <<>>

\* C13: a run that waits for the task to stop (--wait, --stream-log or
\* both), that completes the wait and its queries, and whose overridden
\* container terminated normally, exits with the exit code of that
\* container.
C13_ExitCodeOfContainer ==
    (/\ WaitStopped \/ StreamLog
     /\ exited /\ exitBy \in {"return", "os.Exit"}
     /\ TerminatedNormally)
        => exitCode = Primary.ExitCode[1]

\* C14: while overrun waits on the task, every SIGINT received before a
\* stop-task request has succeeded is followed by a stop-task request, a
\* SIGINT that comes after a failed request included.
C14_EverySigintStops ==
    \A n \in 0..MaxSigints :
        [](/\ sigs # <<>> /\ ~stopOk /\ ~exited /\ stopCalls = n
           => <>(stopCalls > n \/ exited))

----------------------------------------------------------------------------
(* jvshim: the scan of os.Args and the rewriting of the JVM memory flags.   *)
(* A memory value such as 64m is a record of its digits (a number) and its *)
(* unit letter; a token of os.Args is a record of its text up to the       *)
(* memory value, and of that value (0 when the token has none).            *)

CGroupMemLimitFile == "/sys/fs/cgroup/memory/memory.limit_in_bytes"
XXMaxMetaSpaceSize == "-XX:MaxMetaspaceSize="
XXMetaSpaceSize    == "-XX:MetaspaceSize="
XXInitialHeapSize  == "-XX:InitialHeapSize="
XXMaxHeapSize      == "-XX:MaxHeapSize="
Xms == "-Xms"
Xmx == "-Xmx"

Mem(base, unit) == [base |-> base, unit |-> unit]
Flag(name, mem) == [flag |-> name, val |-> mem]

\* a token without a memory value, and a token that is only a memory value
Tok(text) == Flag(text, Mem(0, ""))
Val(mem) == Flag("", mem)

\* the tokens other than memory flags that command lines are made of
JvshimExe == Tok("jvshim")
OptHelp == Tok("--help")
OptShowMem == Tok("--showmem")
OptShowJava == Tok("--showjava")
OptTestLimit == Tok("--testlimit")
OptJavaCmd == Tok("--javacmd")
OptJar == Tok("-jar")
OptCp == Tok("-cp")
OptClasspath == Tok("-classpath")
OptServer == Tok("-server")
AtFile == Tok("@jvm.opts")
AppJar == Tok("app.jar")
MainClass == Tok("Main")
ProgArg == Tok("arg")
LibDir == Tok("lib")
Java8 == Tok("java8")

\* strings.HasPrefix(opt, "@") || strings.HasPrefix(opt, "-") over the
\* tokens above that reach these tests
IsPassthru(opt) == opt \in {OptServer, AtFile}

MinimumMaxMetaSpaceSize == Mem(64, "m")

unitToPow(unit) ==
    IF unit \in {"k", "K"} THEN 1
    ELSE IF unit \in {"m", "M"} THEN 2
    ELSE IF unit \in {"g", "G"} THEN 3
    ELSE 0

RECURSIVE Pow1024(_)
Pow1024(pow) == IF pow = 0 THEN 1 ELSE 1024 * Pow1024(pow - 1)

\* base << (10 * pow)
longMem(base, pow) == base * Pow1024(pow)

parseMem(mem) == longMem(mem.base, unitToPow(mem.unit))

RECURSIVE shortMem(_, _)
shortMem(base, pow) ==
    IF pow > 3 THEN shortMem(base * 1024, pow - 1)
    ELSE IF pow = 3 THEN <<base, pow>>
    ELSE IF base >= 1024 /\ (pow = 0 \/ base % 1024 = 0)
    THEN shortMem(base \div 1024, pow + 1)
    ELSE <<base, pow>>

fmtMem(base, pow) ==
    LET short == shortMem(base, pow)
    IN  Mem(short[1], CASE short[2] = 1 -> "K"
                        [] short[2] = 2 -> "M"
                        [] short[2] = 3 -> "G"
                        [] OTHER -> "")

\* the loop of parseArgs from the token at index i of os.Args (the index
\* of Go plus 1): acc holds the locals.  The last memory flag of a kind
\* gives the preference, every memory flag is kept in memPrefArgs; the
\* scan ends at -jar or at the first token that is no option, where
\* programArgs becomes os.Args[:i]; -cp at the end reads past os.Args.
RECURSIVE jvshim_parseLoop(_, _, _)
jvshim_parseLoop(args, i, acc) ==
    IF i > Len(args) THEN acc
    ELSE LET opt == args[i]
             kept == [acc EXCEPT !.memPrefArgs = Append(@, opt)]
         IN  IF opt = OptHelp
             THEN jvshim_parseLoop(args, i + 1,
                                   [acc EXCEPT !.showHelp = TRUE])
             ELSE IF opt = OptShowMem
             THEN jvshim_parseLoop(args, i + 1,
                                   [acc EXCEPT !.showMem = TRUE])
             ELSE IF opt = OptShowJava
             THEN jvshim_parseLoop(args, i + 1,
                                   [acc EXCEPT !.showJava = TRUE])
             ELSE IF opt = OptTestLimit
             THEN IF Len(args) > i
                  THEN jvshim_parseLoop(args, i + 2,
                           [acc EXCEPT !.testLimit = parseMem(args[i + 1].val)])
                  ELSE jvshim_parseLoop(args, i + 1, acc)
             ELSE IF opt = OptJavaCmd
             THEN IF Len(args) > i
                  THEN jvshim_parseLoop(args, i + 2,
                           [acc EXCEPT !.javacmd = args[i + 1].flag])
                  ELSE jvshim_parseLoop(args, i + 1, acc)
             ELSE IF opt.flag = XXMaxMetaSpaceSize
             THEN jvshim_parseLoop(args, i + 1,
                                   [kept EXCEPT !.prefMaxMeta = opt.val])
             ELSE IF opt.flag = XXMetaSpaceSize
             THEN jvshim_parseLoop(args, i + 1,
                                   [kept EXCEPT !.prefMeta = opt.val])
             ELSE IF opt.flag \in {XXInitialHeapSize, Xms}
             THEN jvshim_parseLoop(args, i + 1,
                                   [kept EXCEPT !.prefInitHeap = opt.val])
             ELSE IF opt.flag \in {XXMaxHeapSize, Xmx}
             THEN jvshim_parseLoop(args, i + 1,
                                   [kept EXCEPT !.prefMaxHeap = opt.val])
             ELSE IF opt = OptJar
             THEN [acc EXCEPT !.programArgs = SubSeq(args, 1, i - 1)]
             ELSE IF opt \in {OptCp, OptClasspath}
             THEN IF i + 1 > Len(args)
                  THEN [acc EXCEPT !.outcome = "panic"]
                  ELSE jvshim_parseLoop(args, i + 2,
                           [acc EXCEPT !.passthruArgs =
                                           @ \o <<opt, args[i + 1]>>])
             ELSE IF IsPassthru(opt)
             THEN jvshim_parseLoop(args, i + 1,
                           [acc EXCEPT !.passthruArgs = Append(@, opt)])
             ELSE [acc EXCEPT !.programArgs = SubSeq(args, 1, i - 1)]

jvshim_parseArgs(args) ==
    LET r == jvshim_parseLoop(args, 2,
                 [outcome |-> "ok", showHelp |-> FALSE, showMem |-> FALSE,
                  showJava |-> FALSE, testLimit |-> 0, javacmd |-> "",
                  passthruArgs |-> <<>>, memPrefArgs |-> <<>>,
                  programArgs |-> <<>>,
                  prefMaxMeta |-> Mem(0, ""), prefMeta |-> Mem(0, ""),
                  prefInitHeap |-> Mem(0, ""), prefMaxHeap |-> Mem(0, "")])
    IN  [outcome |-> r.outcome,
         prefs |->
            [ShowHelp     |-> r.showHelp,
             ShowMem      |-> r.showMem,
             ShowJava     |-> r.showJava,
             TestLimit    |-> r.testLimit,
             JavaCmd      |-> r.javacmd,
             PassthruArgs |-> r.passthruArgs,
             MemPrefArgs  |-> r.memPrefArgs,
             ProgramArgs  |-> r.programArgs,
             PrefMaxMeta  |-> parseMem(r.prefMaxMeta),
             PrefMeta     |-> parseMem(r.prefMeta),
             PrefInitHeap |-> parseMem(r.prefInitHeap),
             PrefMaxHeap  |-> parseMem(r.prefMaxHeap)]]

determineTotalMemLimit(testlimit, cgroup) ==
    IF testlimit > 0 THEN testlimit ELSE cgroup

\* main lines 357-423: the flags that replace the memory flags
jvshim_jvmSet(p, limit) ==
    LET minMaxHeap == parseMem(Mem(2, "m"))
        minMaxMetaspace ==
            IF p.PrefMeta > 0
                  /\ p.PrefMeta > parseMem(MinimumMaxMetaSpaceSize)
            THEN p.PrefMeta ELSE parseMem(MinimumMaxMetaSpaceSize)
        PrefMaxMeta ==
            IF p.PrefMaxMeta = 0
            THEN IF p.PrefMaxHeap > 0
                      /\ p.PrefMaxHeap < limit - minMaxMetaspace
                 THEN limit - p.PrefMaxHeap
                 ELSE minMaxMetaspace
            ELSE p.PrefMaxMeta
        ergoXmx == limit - PrefMaxMeta
    IN  IF limit > minMaxHeap + parseMem(MinimumMaxMetaSpaceSize)
        THEN <<Flag(XXMaxMetaSpaceSize, fmtMem(PrefMaxMeta, 0))>>
             \o (IF p.PrefMeta > 0
                 THEN <<Flag(XXMetaSpaceSize, fmtMem(p.PrefMeta, 0))>>
                 ELSE <<>>)
             \o (IF p.PrefMaxHeap > 0 \/ ergoXmx < p.PrefMaxHeap
                 THEN <<Flag(Xmx, fmtMem(ergoXmx, 0))>>
                      \o (IF p.PrefInitHeap > 0
                          THEN IF p.PrefInitHeap < ergoXmx
                               THEN <<Flag(Xms, fmtMem(p.PrefInitHeap, 0))>>
                               ELSE <<Flag(Xms, fmtMem(ergoXmx, 0))>>
                          ELSE <<>>)
                 ELSE (IF p.PrefMaxHeap > 0
                       THEN <<Flag(Xmx, fmtMem(p.PrefMaxHeap, 0))>>
                       ELSE <<>>)
                      \o (IF p.PrefInitHeap > 0
                          THEN <<Flag(Xmx, fmtMem(p.PrefInitHeap, 0))>>
                          ELSE <<>>))
        ELSE p.MemPrefArgs

\* the memory flags a command line may carry: none or one of each kind
MaxHeapFlags ==
    {<<>>, <<Flag(Xmx, Mem(32, "m"))>>, <<Flag(Xmx, Mem(100, "M"))>>,
     <<Flag(XXMaxHeapSize, Mem(600, "m"))>>,
     <<Flag(Xmx, Mem(104857601, ""))>>}
InitHeapFlags ==
    {<<>>, <<Flag(Xms, Mem(16, "m"))>>,
     <<Flag(XXInitialHeapSize, Mem(200, "m"))>>, <<Flag(Xms, Mem(1, "g"))>>}
MetaFlags ==
    {<<>>, <<Flag(XXMetaSpaceSize, Mem(32, "m"))>>,
     <<Flag(XXMetaSpaceSize, Mem(96, "m"))>>}
MaxMetaFlags ==
    {<<>>, <<Flag(XXMaxMetaSpaceSize, Mem(32, "m"))>>,
     <<Flag(XXMaxMetaSpaceSize, Mem(128, "m"))>>,
     <<Flag(XXMaxMetaSpaceSize, Mem(600, "m"))>>}

\* --testlimit values: none, 66m (not enforced), one byte more, 128m, 512m
TestLimits ==
    {0, parseMem(Mem(66, "m")), parseMem(Mem(66, "m")) + 1,
     parseMem(Mem(128, "m")), parseMem(Mem(512, "m"))}
CGroupLimits == {0, parseMem(Mem(256, "m"))}

\* what follows the memory flags on a command line
JvTails ==
    {<<>>,
     <<OptJar, AppJar, ProgArg>>,
     <<MainClass, Flag(Xmx, Mem(1, "g"))>>,
     <<OptServer, OptJar, AppJar>>,
     <<OptCp, LibDir, MainClass, ProgArg>>,
     <<AtFile, OptClasspath, LibDir, MainClass>>,
     <<OptShowJava, OptJar, AppJar>>,
     <<OptJavaCmd, Java8, MainClass>>,
     <<OptShowMem>>,
     <<OptHelp>>,
     <<OptCp>>}

\* the "java" of determineJavaExecutable, or the --javacmd value
JavaExec(javacmd) == IF javacmd # "" THEN Tok(javacmd) ELSE Tok("java")

\* TestLimit is the byte count that follows --testlimit, 0 on a command
\* line without the option
InitJv ==
    /\ build = "head"
    /\ TestLimit \in TestLimits
    /\ \E mx \in MaxHeapFlags, ms \in InitHeapFlags, mt \in MetaFlags,
          mm \in MaxMetaFlags, tail \in JvTails :
          osArgs = <<JvshimExe>>
                   \o (IF TestLimit > 0
                       THEN <<OptTestLimit, Val(Mem(TestLimit, ""))>>
                       ELSE <<>>)
                   \o mx \o ms \o mt \o mm \o tail
    /\ cgroupLimit \in CGroupLimits
    /\ jvPc = "parseArgs"
    /\ jvPrefs = NoJvPrefs
    /\ totalLimit = 0
    /\ jvmSet = <<>>
    /\ argv = <<>>
    /\ ParseIdle
    /\ NetIdle
    /\ MainIdle
    /\ OvIdle
    /\ SsmIdle

jvRest ==
    <<build, osArgs, TestLimit, cgroupLimit, parseVars, netVars, mainVars,
      ovVars, ssmVars>>

\* main lines 338-343: parseArgs, then usage() and os.Exit(1) on --help
JvParseArgs ==
    /\ jvPc = "parseArgs"
    /\ LET r == jvshim_parseArgs(osArgs)
       IN  IF r.outcome = "panic"
           THEN jvPc' = "panic" /\ UNCHANGED jvPrefs
           ELSE /\ jvPrefs' = r.prefs
                /\ jvPc' = IF r.prefs.ShowHelp THEN "usage" ELSE "main"
    /\ UNCHANGED <<totalLimit, jvmSet, argv, jvRest>>

\* main lines 350-423: the limit, then the rewritten flags
JvRewrite ==
    /\ jvPc = "main"
    /\ totalLimit' = determineTotalMemLimit(jvPrefs.TestLimit, cgroupLimit)
    /\ jvmSet' = jvshim_jvmSet(jvPrefs, totalLimit')
    /\ jvPc' = "exec"
    /\ UNCHANGED <<jvPrefs, argv, jvRest>>

\* main lines 425-440: the arguments of java, printed with --showjava and
\* handed to syscall.Exec otherwise
JvExec ==
    /\ jvPc = "exec"
    /\ LET javaExec == JavaExec(jvPrefs.JavaCmd)
           jvmArgs == jvmSet \o jvPrefs.PassthruArgs
       IN  IF jvPrefs.ShowMem
           THEN /\ argv' = jvmArgs \o <<Tok("-XshowSettings:vm"),
                                        Tok("-XX:+PrintCommandLineFlags"),
                                        Tok("-version")>>
                /\ jvPc' = "showmem"
           ELSE IF jvPrefs.ShowJava
           THEN /\ argv' = <<javaExec>> \o jvmArgs \o jvPrefs.ProgramArgs
                /\ jvPc' = "showjava"
           ELSE /\ argv' = <<javaExec>> \o jvmArgs \o jvPrefs.ProgramArgs
                /\ jvPc' = "java"
    /\ UNCHANGED <<jvPrefs, totalLimit, jvmSet, jvRest>>

NextJv == JvParseArgs \/ JvRewrite \/ JvExec

SpecJv == InitJv /\ [][NextJv]_vars

\* the limit is enforced: jvshim has rewritten the flags
Enforced ==
    /\ jvPc = "exec"
    /\ totalLimit > parseMem(Mem(2, "m")) + parseMem(Mem(64, "m"))

Supplied(names) ==
    \E i \in 1..Len(jvPrefs.MemPrefArgs) :
        jvPrefs.MemPrefArgs[i].flag \in names
Emitted(name) == {i \in 1..Len(jvmSet) : jvmSet[i].flag = name}
Bytes(i) == parseMem(jvmSet[i].val)

\* C15: when the limit is enforced, the rewritten flags hold a
\* -XX:MaxMetaspaceSize value and a -Xmx value whose sum in bytes does not
\* exceed the limit, whatever memory flags the user supplied (none
\* included).
C15_HeapPlusMetaspaceWithinLimit ==
    Enforced =>
        \E i \in Emitted(XXMaxMetaSpaceSize), j \in Emitted(Xmx) :
            Bytes(i) + Bytes(j) <= totalLimit

\* C16: when the limit is enforced and the user supplied -Xms or
\* -XX:InitialHeapSize, the rewritten flags hold an -Xms flag whose value is
\* at most that of the emitted -Xmx flag, and at most one -Xmx flag.
C16_InitHeapWithinMaxHeap ==
    (Enforced /\ Supplied({Xms, XXInitialHeapSize})) =>
        /\ \E i \in Emitted(Xms), j \in Emitted(Xmx) : Bytes(i) <= Bytes(j)
        /\ Cardinality(Emitted(Xmx)) <= 1

\* C17: when the limit is enforced, the emitted -XX:MaxMetaspaceSize value
\* is at least 64m and at least the emitted -XX:MetaspaceSize value, if any,
\* whatever memory flags the user supplied.
C17_MaxMetaspaceAtLeastMinimum ==
    Enforced =>
        /\ Emitted(XXMaxMetaSpaceSize) # {}
        /\ \A i \in Emitted(XXMaxMetaSpaceSize) :
              /\ Bytes(i) >= parseMem(MinimumMaxMetaSpaceSize)
              /\ \A j \in Emitted(XXMetaSpaceSize) : Bytes(i) >= Bytes(j)

----------------------------------------------------------------------------
(* overrun: the shell and role options of parseArgs, constructCommand and  *)
(* buildOverrides.  The code is the same in both revisions.                *)

NoOptPrefix   == <<"-","-","n","o","-">>
Opt_DashDash  == <<"-","-">>
Opt_shell     == <<"-","-","s","h","e","l","l">>
Opt_no_shell  == <<"-","-","n","o","-","s","h","e","l","l">>
Opt_exec_role == <<"-","-","e","x","e","c","-","r","o","l","e">>
Opt_task_role == <<"-","-","t","a","s","k","-","r","o","l","e">>

\* strings.TrimPrefix(s, p)
TrimPrefix(s, p) ==
    IF HasPrefix(s, p) THEN SubSeq(s, Len(p) + 1, Len(s)) ELSE s

\* strings.Replace(s, c, by, -1) for a one-character c
RECURSIVE Replace(_, _, _)
Replace(s, c, by) ==
    IF s = <<>> THEN <<>>
    ELSE (IF Head(s) = c THEN by ELSE <<Head(s)>>) \o Replace(Tail(s), c, by)

\* strings.ContainsRune(s, c)
ContainsRune(s, c) == \E i \in 1..Len(s) : s[i] = c

\* the loop ArgLoop of parseArgs from os.Args[i] on; acc holds the locals
RECURSIVE ArgLoop(_, _, _)
ArgLoop(args, i, acc) ==
    IF i > Len(args) THEN [outcome |-> "ok", prefs |-> acc]
    ELSE LET isNoOpt == HasPrefix(args[i], NoOptPrefix)
             opt == IF isNoOpt
                    THEN Opt_DashDash \o TrimPrefix(args[i], NoOptPrefix)
                    ELSE args[i]
         IN  IF opt \in {Opt_exec_role, Opt_task_role}
             THEN IF i + 1 > Len(args)
                  THEN [outcome |-> "panic", prefs |-> acc]
                  ELSE ArgLoop(args, i + 2,
                           IF opt = Opt_exec_role
                           THEN [acc EXCEPT !.ExecRoleArn = args[i + 1]]
                           ELSE [acc EXCEPT !.TaskRoleArn = args[i + 1]])
             ELSE IF opt = Opt_shell
             THEN IF isNoOpt
                  THEN ArgLoop(args, i + 1, [acc EXCEPT !.NoShell = TRUE])
                  ELSE IF i + 1 > Len(args)
                  THEN [outcome |-> "panic", prefs |-> acc]
                  ELSE ArgLoop(args, i + 2,
                           [acc EXCEPT !.NoShell = FALSE,
                                       !.ShellPrefix = args[i + 1]])
             ELSE IF opt = Opt_DashDash
             THEN [outcome |-> "ok",
                   prefs |-> [acc EXCEPT !.OverridesCmd = TRUE,
                                 !.CmdOverride = SubSeq(args, i + 1,
                                                        Len(args))]]
             ELSE [outcome |-> "fatal", prefs |-> acc]

parseArgs(args) == ArgLoop(args, 1, NoOverridePrefs)

\* the loop of constructCommand: an argument with a space is put in double
\* quotes, its own double quotes escaped
Escaped(args) ==
    [i \in 1..Len(args) |->
        IF ContainsRune(args[i], " ")
        THEN <<"\"">> \o Replace(args[i], "\"", <<"\\", "\"">>) \o <<"\"">>
        ELSE args[i]]

constructCommand(p) ==
    IF p.NoShell THEN p.CmdOverride
    ELSE LET escapedStr == Join(Escaped(p.CmdOverride), <<" ">>)
         IN  IF Len(p.ShellPrefix) > 0 /\ p.ShellPrefix # <<" ">>
             THEN <<p.ShellPrefix \o <<" ", "'">>
                    \o Replace(escapedStr, "'", <<"'", "\"", "'", "\"", "'">>)
                    \o <<"'">> >>
             ELSE <<escapedStr>>

\* buildOverrides: the roles and the command of the override (a role
\* pointer is a list of no value or one)
buildOverrides(p) ==
    [ExecutionRoleArn |->
         IF Len(p.ExecRoleArn) > 0 THEN <<p.ExecRoleArn>> ELSE <<>>,
     TaskRoleArn |->
         IF Len(p.TaskRoleArn) > 0 THEN <<p.ExecRoleArn>> ELSE <<>>,
     Command |->
         IF p.OverridesCmd THEN [set |-> TRUE, val |-> constructCommand(p)]
         ELSE [set |-> FALSE, val |-> <<>>]]

MaxOpts == 3    \* most options before the "--" of a command line

RoleR == <<"R">>
RoleE == <<"E">>

\* an option with its value, if it takes one
OptGroups ==
    {<<Opt_shell, <<"s","h">> >>, <<Opt_shell, <<" ">> >>, <<Opt_no_shell>>,
     <<Opt_task_role, RoleR>>, <<Opt_exec_role, RoleE>>,
     <<Opt_exec_role, RoleR>>}

RECURSIVE Flatten(_)
Flatten(ss) == IF ss = <<>> THEN <<>> ELSE Head(ss) \o Flatten(Tail(ss))

OptLists ==
    UNION {{Flatten(gs) : gs \in [1..n -> OptGroups]} : n \in 0..MaxOpts}

\* what follows the options: nothing, an option without its value, or "--"
\* and the command
Commands ==
    {<<>>, << <<"a">> >>, << <<"a"," ","b">>, <<"c","'">> >>,
     << <<"-","-","n","o","-","s","h","e","l","l">>, <<"\"", " ">> >>}
Endings ==
    {<<>>, <<Opt_task_role>>} \cup {<<Opt_DashDash>> \o c : c \in Commands}

InitOv ==
    /\ build \in Builds
    /\ \E opts \in OptLists, e \in Endings : ovArgs = opts \o e
    /\ ovPc = "parseArgs"
    /\ ovOutcome = "running"
    /\ ovPrefs = NoOverridePrefs
    /\ tsk = NoTaskOverride
    /\ ParseIdle
    /\ NetIdle
    /\ MainIdle
    /\ JvIdle
    /\ SsmIdle

ovRest ==
    <<build, ovArgs, parseVars, netVars, mainVars, jvVars, ssmVars>>

\* main line 375: parseArgs
OvParseArgs ==
    /\ ovPc = "parseArgs"
    /\ LET r == parseArgs(ovArgs)
       IN  /\ ovPrefs' = r.prefs
           /\ ovOutcome' = IF r.outcome = "ok" THEN "running" ELSE r.outcome
           /\ ovPc' = IF r.outcome = "ok" THEN "buildOverrides" ELSE "done"
    /\ UNCHANGED <<tsk, ovRest>>

\* buildRunTaskInput line 822: buildOverrides
OvBuildOverrides ==
    /\ ovPc = "buildOverrides"
    /\ tsk' = buildOverrides(ovPrefs)
    /\ ovOutcome' = "ok"
    /\ ovPc' = "done"
    /\ UNCHANGED <<ovPrefs, ovRest>>

NextOv == OvParseArgs \/ OvBuildOverrides

SpecOv == InitOv /\ [][NextOv]_vars

\* the options of the command line: what precedes the first "--"
OptionsOf(args) ==
    IF \E i \in 1..Len(args) : args[i] = Opt_DashDash
    THEN SubSeq(args, 1,
             (CHOOSE i \in 1..Len(args) :
                 /\ args[i] = Opt_DashDash
                 /\ \A j \in 1..(i - 1) : args[j] # Opt_DashDash) - 1)
    ELSE args

\* the arguments after the first "--"
CommandOf(args) == SubSeq(args, Len(OptionsOf(args)) + 2, Len(args))

\* the option opt is given with the value v, and is not given again later
GivenLast(opt, v) ==
    LET os == OptionsOf(ovArgs)
    IN  \E i \in 1..(Len(os) - 1) :
            /\ os[i] = opt /\ os[i + 1] = v
            /\ \A j \in (i + 1)..Len(os) : os[j] # opt

Overridden == ovPc = "done" /\ ovOutcome = "ok"

\* C18: when --task-role R is given, the task role ARN of the task override
\* is R, whether or not --exec-role is given and whatever its value; when
\* --exec-role E is given, the execution role ARN is E.
C18_RolesFromTheirOptions ==
    Overridden =>
        \A v \in {RoleR, RoleE} :
            /\ GivenLast(Opt_task_role, v) => tsk.TaskRoleArn = <<v>>
            /\ GivenLast(Opt_exec_role, v) => tsk.ExecutionRoleArn = <<v>>

NoShellGiven ==
    \E i \in 1..Len(OptionsOf(ovArgs)) : OptionsOf(ovArgs)[i] = Opt_no_shell

\* C19: if --no-shell is among the options, before or after any --shell
\* option, the command override is the argument list that follows "--",
\* unjoined and unescaped; otherwise it is a list of one element.
C19_NoShellOverridesShell ==
    (Overridden /\ ovPrefs.OverridesCmd) =>
        /\ tsk.Command.set
        /\ IF NoShellGiven
           THEN tsk.Command.val = CommandOf(ovArgs)
           ELSE Len(tsk.Command.val) = 1

\* C20: in explicit-subnet resolution without security-group filter, no
\* describe-security-groups query is issued and the security-group list of
\* the result is empty; with a security-group filter the list is the first
\* at most 10 group identifiers that the security-group query returned.
C20_SubnetModeSecurityGroups ==
    ExplicitSubnet =>
        IF prefs.VpcSgFilters = <<>>
        THEN /\ ~Issued("DescribeSecurityGroups")
             /\ ResolvedOk => Config.SecurityGroups = <<>>
        ELSE ResolvedOk =>
                 /\ Received("DescribeSecurityGroups")
                 /\ Config.SecurityGroups =
                        Truncate(results["DescribeSecurityGroups"].val, 10)

\* describe-container-instances returned container instances, none with an
\* EC2 instance identifier
NoHostIdentifier ==
    /\ Received("DescribeContainerInstances")
    /\ results["DescribeContainerInstances"].val # <<>>
    /\ InstanceIdsOf(results["DescribeContainerInstances"].val) = <<>>

\* C21: cluster-implied resolution whose describe-container-instances query
\* returns container instances none of which has an EC2 instance identifier
\* fails with the error of an empty cluster (no describable container
\* instances, specify --fargate:net or --fargate:host), and issues no
\* describe-instances query.
C21_NoHostIdentifierError ==
    (ClusterImplied /\ NoHostIdentifier) =>
        /\ Done
        /\ outcome = "error"
        /\ err = MessageError(NoContainerInstancesMessage(prefs.Cluster))
        /\ ~Issued("DescribeInstances")

\* the identifiers of the subnets of sns that are in the VPC vpcId, in order
RECURSIVE SubnetsInVpc(_, _)
SubnetsInVpc(sns, vpcId) ==
    IF sns = <<>> THEN <<>>
    ELSE (IF Head(sns).VpcId = vpcId THEN <<Head(sns).SubnetId>> ELSE <<>>)
         \o SubnetsInVpc(Tail(sns), vpcId)

\* C22: in explicit-subnet resolution, when m of the returned subnets are in
\* the VPC of the first returned subnet, the result holds the first
\* min(10, m) of them in query order, wherever the subnets of other VPCs
\* stand in the response.
C22_FirstTenMatchingSubnets ==
    (ExplicitSubnet /\ ResolvedOk) =>
        LET sns == results["DescribeSubnets"].val
        IN  Config.Subnets = Truncate(SubnetsInVpc(sns, sns[1].VpcId), 10)

\* the VPC filters hold an explicit vpc-id filter
ExplicitVpcId ==
    \E i \in 1..Len(prefs.VpcFilters) : prefs.VpcFilters[i].Name = FilterVpcId

\* C23: when VPC scoping is requested and the VPC filters hold an explicit
\* vpc-id filter, at any position, that filter is the restriction (it is
\* appended to the global filters) and no describe-vpcs query is issued.
C23_ExplicitVpcIdUsedDirectly ==
    (build = "head" /\ prefs.LaunchFargate /\ prefs.DoFilterVpc
     /\ ExplicitVpcId /\ pc # "buildRunTaskInput") =>
        /\ ~Issued("DescribeVpcs")
        /\ \E i \in 1..Len(prefs.VpcFilters) :
              /\ prefs.VpcFilters[i].Name = FilterVpcId
              /\ ctx.AnyFilters = prefs.AnyFilters \o <<prefs.VpcFilters[i]>>

\* C24: explicit-host resolution of src/overrun/main.go with the
\* security-group option given: the security-group list has at most 10
\* entries, none twice, all of them attached to the instance or returned by
\* the security-group query, and it holds every group attached to the
\* instance when the instance has at most 10 of them.
C24_MergedGroupsCapped ==
    (build = "head" /\ ExplicitHost /\ prefs.DoFilterSgs /\ ResolvedOk) =>
        LET attached == Range(MatchedInstance.SecurityGroups)
            queried  == Range(results["DescribeSecurityGroups"].val)
        IN  /\ Len(Config.SecurityGroups) <= 10
            /\ NoDuplicates(Config.SecurityGroups)
            /\ Range(Config.SecurityGroups) \subseteq attached \cup queried
            /\ Cardinality(attached) <= 10 =>
                   attached \subseteq Range(Config.SecurityGroups)

\* an instance with 9 groups, a query that returned groups it does not
\* have, and a list of 10
C24_Witness ==
    /\ build = "head" /\ ExplicitHost /\ prefs.DoFilterSgs /\ ResolvedOk
    /\ Cardinality(Range(MatchedInstance.SecurityGroups)) = 9
    /\ Cardinality(Range(results["DescribeSecurityGroups"].val)
                      \ Range(MatchedInstance.SecurityGroups)) >= 2
    /\ Len(Config.SecurityGroups) = 10

\* ids in the order of their first occurrence
RECURSIVE InsertionOrder(_)
InsertionOrder(ids) ==
    IF ids = <<>> THEN <<>>
    ELSE LET init == InsertionOrder(SubSeq(ids, 1, Len(ids) - 1))
             last == ids[Len(ids)]
         IN  IF Contains(init, last) THEN init ELSE Append(init, last)

\* C25: explicit-host resolution is deterministic: the security-group list
\* is a function of the query responses, namely the first 10 candidate
\* groups in insertion order, the instance's groups before the queried ones.
C25_GroupsInInsertionOrder ==
    (build = "head" /\ ExplicitHost /\ ResolvedOk) =>
        LET queried == IF Received("DescribeSecurityGroups")
                       THEN results["DescribeSecurityGroups"].val ELSE <<>>
        IN  Config.SecurityGroups =
                Truncate(InsertionOrder(MatchedInstance.SecurityGroups
                                            \o queried), 10)

\* main is at, or has exited from, the DescribeTasks request of line 541
FinalStateRead ==
    \/ mainPc = "describe"
    \/ mainPc = "end" /\ exitBy = "os.Exit"

\* C26: with --stream-log, overrun reads the final state of the task and
\* exits only after the task has stopped and GoTailLogs has completed an
\* error-free pass; GoTailLogs calls Done on the wait group once, however
\* many passes it makes.
C26_ExitAfterStopAndFirstPass ==
    /\ (StreamLog /\ FinalStateRead) => (taskStopped /\ okPasses >= 1)
    /\ doneCalls = (IF okPasses >= 1 THEN 1 ELSE 0)
    /\ exitBy # "panic"

\* the final state was read after three passes, two of them error-free
C26_Witness ==
    /\ StreamLog /\ mainPc = "end" /\ exitBy = "os.Exit"
    /\ passes = MaxPasses /\ okPasses = 2 /\ doneCalls = 1

\* the index in args, from i on, of the token that ends the scan: -jar or
\* the first token that is neither an option nor the value of one; 0 when
\* the scan reaches the end of args
RECURSIVE ScanEnd(_, _)
ScanEnd(args, i) ==
    IF i > Len(args) THEN 0
    ELSE IF args[i] \in {OptTestLimit, OptJavaCmd, OptCp, OptClasspath}
    THEN ScanEnd(args, i + 2)
    ELSE IF \/ args[i] \in {OptHelp, OptShowMem, OptShowJava}
            \/ args[i].val # Mem(0, "")
            \/ IsPassthru(args[i])
    THEN ScanEnd(args, i + 1)
    ELSE i

\* C30: when the scan of jvshim reaches -jar or the first token that is not
\* a flag, the program arguments passed to java are that token and the
\* tokens after it, in their order, and no token before it.
C30_ProgramArgsFromScanEnd ==
    (jvPc = "java" /\ ScanEnd(osArgs, 2) # 0) =>
        LET rest == SubSeq(osArgs, ScanEnd(osArgs, 2), Len(osArgs))
        IN  /\ jvPrefs.ProgramArgs = rest
            /\ argv = <<JavaExec(jvPrefs.JavaCmd)>> \o jvmSet
                          \o jvPrefs.PassthruArgs \o rest

----------------------------------------------------------------------------
(* ssmple: one run of get, put, delete or clear, for one file and one      *)
(* prefix.  A parameter value is a sequence of characters.  A key, a       *)
(* parameter name and a KMS key id are sequences of the parts that the     *)
(* code joins and takes apart: ("k", "1", "_SecureStringKeyId") is the     *)
(* key k1_SecureStringKeyId, ("alias/", "app") is the alias alias/app.     *)

KeyIdSuffix == "_SecureStringKeyId"
AliasPrefix == "alias/"

ParameterTypeString == "String"
ParameterTypeStringList == "StringList"
ParameterTypeSecureString == "SecureString"

\* buildParameterPath(prefix, filename, "") for the prefix and the file of
\* the run
ParamPath == "/app/conf"

\* buildParameterPath(prefix, filename, key)
buildParameterPath(key) ==
    IF Len(key) > 0 THEN <<ParamPath, "/">> \o key ELSE <<ParamPath>>

\* strings.HasSuffix(key, KeyIdSuffix)
HasKeyIdSuffix(key) == Len(key) > 0 /\ key[Len(key)] = KeyIdSuffix

unescapeValueAfterGet(value) ==
    IF Len(value) = 0 THEN value
    ELSE IF \E i \in 1..Len(value) : value[i] # " " THEN value
    ELSE SubSeq(value, 1, Len(value) - 1)

\* the value as it is, a space never added
escapeValueBeforePut_NoSpace(value) == value

escapeValueBeforePut(value) ==
    IF \E i \in 1..Len(value) : value[i] # " " THEN value
    ELSE value \o <<" ">>

\* KmsMap.deref
deref(ka, alias) ==
    LET fqAlias == IF HasPrefix(alias, <<AliasPrefix>>) THEN alias
                   ELSE <<AliasPrefix>> \o alias
    IN  IF fqAlias \in DOMAIN ka.aliasesToKeys
        THEN ka.aliasesToKeys[fqAlias]
        ELSE fqAlias

\* KmsMap.aliasFor
aliasFor(ka, keyId) ==
    IF keyId \in DOMAIN ka.keysToAliases
    THEN ka.keysToAliases[keyId]
    ELSE keyId

\* the loop of buildAliasList over result.Aliases; a pointer is a list of
\* no value or one
RECURSIVE buildAliasList(_, _)
buildAliasList(aliases, ka) ==
    IF aliases = <<>> THEN ka
    ELSE LET entry == Head(aliases)
         IN  buildAliasList(Tail(aliases),
                 IF entry.TargetKeyId # <<>> /\ entry.AliasName # <<>>
                 THEN [aliasesToKeys |->
                           (entry.AliasName[1] :> entry.TargetKeyId[1])
                               @@ ka.aliasesToKeys,
                       keysToAliases |->
                           (entry.TargetKeyId[1] :> entry.AliasName[1])
                               @@ ka.keysToAliases]
                 ELSE ka)

\* the loop of getParamsPerPath over paramsForPath; KeyId is the KeyId of
\* the DescribeParameters result for the parameter
RECURSIVE getParamsPerPath(_, _, _, _)
getParamsPerPath(p, ka, paramsForPath, storeDict) ==
    IF paramsForPath = <<>> THEN storeDict
    ELSE LET param == Head(paramsForPath)
             name == param.Name
             storeKey == TrimPrefix(name, <<ParamPath, "/">>)
             stored == (storeKey :> unescapeValueAfterGet(param.Value))
                           @@ storeDict
             sidecarStoreKey == Append(storeKey, KeyIdSuffix)
         IN  getParamsPerPath(p, ka, Tail(paramsForPath),
                 IF \/ param.Type = ParameterTypeStringList
                    \/ /\ p.NoStoreSecureString
                       /\ param.Type = ParameterTypeSecureString
                 THEN storeDict
                 ELSE IF ~HasPrefix(name, <<ParamPath, "/">>)
                 THEN storeDict
                 ELSE IF /\ param.Type = ParameterTypeSecureString
                         /\ param.KeyId # <<>>
                 THEN (sidecarStoreKey :> aliasFor(ka, param.KeyId[1]))
                          @@ stored
                 ELSE stored)

\* the batch loop of clearParamsPerFile and deleteParamsPerFile: count / 10
\* + 1 batches cut out of names, the last one open-ended, the empty ones
\* not sent
DeleteBatches(names, count) ==
    LET batchSize == 10
        batches == (count \div batchSize) + 1
        Names(b) ==
            IF b + 1 < batches
            THEN SubSeq(names, batchSize * b + 1, batchSize * (b + 1))
            ELSE SubSeq(names, batchSize * b + 1, Len(names))
        inputs == [b \in 1..batches |->
                      [op |-> "DeleteParameters", Names |-> Names(b - 1)]]
    IN  SelectSeq(inputs, LAMBDA req : Len(req.Names) > 0)

\* deleteParamsPerFile lines 402-410
toDelete(names, allNames) ==
    SelectSeq(names, LAMBDA cand : cand \in Range(allNames))

\* the names of a list of parameters
NamesOf(ps) == [i \in 1..Len(ps) |-> ps[i].Name]

\* the loop of putParamsPerFile over the keys of store.Dict in the order
\* keys: the PutParameter inputs
RECURSIVE putInputs(_, _, _, _)
putInputs(p, ka, d, keys) ==
    IF keys = <<>> THEN <<>>
    ELSE LET key == Head(keys)
             sidecarKeyId == Append(key, KeyIdSuffix)
             inDict == sidecarKeyId \in DOMAIN d
             isSecure == inDict \/ Len(p.KeyIdPutAll) > 0
             keyId == deref(ka, IF Len(p.KeyIdPutAll) > 0 THEN p.KeyIdPutAll
                                ELSE IF inDict THEN d[sidecarKeyId]
                                ELSE <<>>)
             rest == putInputs(p, ka, d, Tail(keys))
         IN  IF HasKeyIdSuffix(key) THEN rest
             ELSE IF inDict /\ p.NoPutSecureString THEN rest
             ELSE <<[op |-> "PutParameter",
                     Name |-> buildParameterPath(key),
                     Value |-> escapeValueBeforePut(d[key]),
                     Overwrite |-> p.OverwritePut,
                     Type |-> IF isSecure THEN ParameterTypeSecureString
                              ELSE ParameterTypeString,
                     KeyId |-> IF isSecure THEN <<keyId>> ELSE <<>>]>>
                  \o rest

\* SSM: the parameters left by a DeleteParameters request
ssmDelete(ps, names) == SelectSeq(ps, LAMBDA q : q.Name \notin Range(names))

RECURSIVE ssmDeleteAll(_, _)
ssmDeleteAll(ps, inputs) ==
    IF inputs = <<>> THEN ps
    ELSE ssmDeleteAll(ssmDelete(ps, Head(inputs).Names), Tail(inputs))

\* SSM: a PutParameter request is refused for a parameter that exists when
\* Overwrite is false
ssmRefuses(ps, req) ==
    ~req.Overwrite /\ req.Name \in Range(NamesOf(ps))

\* SSM: the parameters left by an accepted PutParameter request
ssmPut(ps, req) ==
    LET q == [Name |-> req.Name, Value |-> req.Value,
              Type |-> req.Type, KeyId |-> req.KeyId]
    IN  IF req.Name \in Range(NamesOf(ps))
        THEN [i \in 1..Len(ps) |->
                 IF ps[i].Name = req.Name THEN q ELSE ps[i]]
        ELSE Append(ps, q)

\* the requests of putParamsPerFile one after the other, up to the first
\* that SSM refuses: the parameters left, the inputs sent, the error
RECURSIVE putAll(_, _, _)
putAll(ps, inputs, done) ==
    IF inputs = <<>> THEN [params |-> ps, sent |-> done, err |-> FALSE]
    ELSE IF ssmRefuses(ps, Head(inputs))
    THEN [params |-> ps, sent |-> Append(done, Head(inputs)), err |-> TRUE]
    ELSE putAll(ssmPut(ps, Head(inputs)), Tail(inputs),
                Append(done, Head(inputs)))

MaxValueLen == 3    \* longest parameter value
MaxKeys == 12       \* most keys of a local file, most parameters of a path

Values == UNION {[1..n -> {" ", "x"}] : n \in 0..MaxValueLen}

Key(i) == <<"k", ToString(i)>>

KeyCounts == {0, 2, 10, 11, MaxKeys}

KeyIds == {<<"key-1">>, <<"key-2">>, <<AliasPrefix, "aws/ssm">>}

\* the local file: one key with a value, one key with its key-id sidecar,
\* or a number of keys
LocalFiles ==
    {(Key(1) :> v) @@ EmptyMap : v \in Values}
    \cup {(Key(1) :> <<"x">>) @@ (Append(Key(1), KeyIdSuffix) :> kid) :
              kid \in {<<"app">>, <<AliasPrefix, "app">>, <<"key-1">>}}
    \cup {[k \in {Key(i) : i \in 1..n} |-> <<"x">>] : n \in KeyCounts}

Param(key, value, type, keyId) ==
    [Name |-> buildParameterPath(key), Value |-> value, Type |-> type,
     KeyId |-> keyId]

\* the parameters under the path: those of the first m keys, with or
\* without one that the file does not have; one of spaces; a secure one; a
\* list
SsmParameters ==
    {[i \in 1..m |-> Param(Key(i), <<"x">>, ParameterTypeString, <<>>)]
         \o other :
         m \in KeyCounts,
         other \in {<<>>, <<Param(<<"other">>, <<"x">>,
                                  ParameterTypeString, <<>>)>>}}
    \cup {<<Param(Key(1), v, ParameterTypeString, <<>>)>> :
              v \in {<<" ">>, <<" ", " ">>}}
    \cup {<<Param(Key(1), <<"x">>, ParameterTypeSecureString, kid)>> :
              kid \in {<<>>} \cup {<<k>> : k \in KeyIds}}
    \cup {<<Param(Key(1), <<"x">>, ParameterTypeStringList, <<>>)>>}

AliasListEntry(alias, key) == [AliasName |-> alias, TargetKeyId |-> key]

\* the result of ListAliases: an error, or a list of aliases
ListAliasesResponses ==
    {[st |-> "err", val |-> <<>>],
     [st |-> "ok", val |-> <<>>],
     [st |-> "ok",
      val |-> <<AliasListEntry(<<<<AliasPrefix, "app">>>>, <<<<"key-1">>>>)>>],
     [st |-> "ok",
      val |-> <<AliasListEntry(<<<<AliasPrefix, "app">>>>, <<<<"key-1">>>>),
                AliasListEntry(<<<<AliasPrefix, "app2">>>>, <<<<"key-1">>>>)>>],
     [st |-> "ok",
      val |-> <<AliasListEntry(<<<<AliasPrefix, "aws/ssm">>>>, <<>>),
                AliasListEntry(<<<<AliasPrefix, "app">>>>, <<<<"key-2">>>>)>>]}

\* the flags a command reads
SsmPrefsOf(cmd) ==
    IF cmd = "get"
    THEN {[NoSsmPrefs EXCEPT !.NoStoreSecureString = b] : b \in BOOLEAN}
    ELSE IF cmd = "put"
    THEN [NoStoreSecureString : {FALSE}, NoPutSecureString : BOOLEAN,
          KeyIdPutAll : {<<>>, <<"app">>}, OverwritePut : BOOLEAN,
          ClearOnPut : BOOLEAN]
    ELSE {NoSsmPrefs}

InitSsm ==
    /\ build = "head"
    /\ ssmCmd \in {"get", "put", "delete", "clear"}
    /\ ssmPrefs \in SsmPrefsOf(ssmCmd)
    /\ ssmPc = "execCmd"
    /\ dict \in LocalFiles
    /\ params \in SsmParameters
    /\ kmsMap = NoKmsMap
    /\ ssmSent = <<>>
    /\ ParseIdle
    /\ NetIdle
    /\ MainIdle
    /\ JvIdle
    /\ OvIdle

ssmRest == <<build, ssmCmd, ssmPrefs, parseVars, netVars, mainVars, jvVars,
             ovVars>>

\* execCmd lines 199-219: the alias list is loaded for get and put, unless
\* secure strings are left out; an error of buildAliasList is dropped
ExecCmd ==
    /\ ssmPc = "execCmd"
    /\ IF \/ ssmCmd = "get" /\ ~ssmPrefs.NoStoreSecureString
          \/ ssmCmd = "put" /\ ~ssmPrefs.NoPutSecureString
       THEN \E resp \in ListAliasesResponses :
                kmsMap' = IF resp.st = "err" THEN kmsMap
                          ELSE buildAliasList(resp.val, kmsMap)
       ELSE UNCHANGED kmsMap
    /\ ssmPc' = "do"
    /\ UNCHANGED <<dict, params, ssmSent, ssmRest>>

\* doGet: getParamsPerFile, which fails when a request fails and saves
\* store.Dict otherwise
DoGet ==
    /\ ssmPc = "do" /\ ssmCmd = "get"
    /\ \/ /\ dict' = getParamsPerPath(ssmPrefs, kmsMap, params, dict)
          /\ ssmPc' = "done"
       \/ /\ ssmPc' = "failed"
          /\ UNCHANGED dict
    /\ UNCHANGED <<params, kmsMap, ssmSent, ssmRest>>

\* doPut: putParamsPerFile, the keys of store.Dict in the order of the map
DoPut ==
    /\ ssmPc = "do" /\ ssmCmd = "put"
    /\ \/ \E keys \in MapRangeOrders(DOMAIN dict) :
             LET clear == IF ssmPrefs.ClearOnPut
                          THEN DeleteBatches(NamesOf(params), Len(params))
                          ELSE <<>>
                 r == putAll(ssmDeleteAll(params, clear),
                             putInputs(ssmPrefs, kmsMap, dict, keys), <<>>)
             IN  /\ params' = r.params
                 /\ ssmSent' = clear \o r.sent
                 /\ ssmPc' = IF r.err THEN "failed" ELSE "done"
       \/ /\ ssmPrefs.ClearOnPut
          /\ ssmPc' = "failed"
          /\ UNCHANGED <<params, ssmSent>>
    /\ UNCHANGED <<dict, kmsMap, ssmRest>>

\* doDelete: deleteParamsPerFile, the keys of store.Dict in the order of
\* the map; the second case is the error of findAllParametersForPath
DoDelete ==
    /\ ssmPc = "do" /\ ssmCmd = "delete"
    /\ \/ \E keys \in MapRangeOrders(DOMAIN dict) :
             LET names == [i \in 1..Len(keys) |-> buildParameterPath(keys[i])]
                 count == Len(toDelete(names, NamesOf(params)))
                 inputs == DeleteBatches(names, count)
             IN  /\ ssmSent' = inputs
                 /\ params' = ssmDeleteAll(params, inputs)
                 /\ ssmPc' = "done"
       \/ /\ ssmPc' = "failed"
          /\ UNCHANGED <<params, ssmSent>>
    /\ UNCHANGED <<dict, kmsMap, ssmRest>>

\* doClear: clearParamsPerFile
DoClear ==
    /\ ssmPc = "do" /\ ssmCmd = "clear"
    /\ \/ LET inputs == DeleteBatches(NamesOf(params), Len(params))
          IN  /\ ssmSent' = inputs
              /\ params' = ssmDeleteAll(params, inputs)
              /\ ssmPc' = "done"
       \/ /\ ssmPc' = "failed"
          /\ UNCHANGED <<params, ssmSent>>
    /\ UNCHANGED <<dict, kmsMap, ssmRest>>

NextSsm ==
    \/ ExecCmd
    \/ DoGet
    \/ DoPut
    \/ DoDelete
    \/ DoClear

SpecSsm == InitSsm /\ [][NextSsm]_vars

\* the key of the file that a parameter name stands for
KeyOf(name) == TrimPrefix(name, <<ParamPath, "/">>)

\* C27: the escaping of ssmple round-trips: unescapeValueAfterGet gives
\* back every value that escapeValueBeforePut was applied to, the empty
\* string and strings of spaces included, and escapeValueBeforePut never
\* returns the empty string.
C27_EscapedValueRoundTrips ==
    \A i \in 1..Len(ssmSent) :
        ssmSent[i].op = "PutParameter" =>
            /\ ssmSent[i].Value # <<>>
            /\ unescapeValueAfterGet(ssmSent[i].Value)
                   = dict[KeyOf(ssmSent[i].Name)]

\* a value of two spaces was put as three
C27_Witness ==
    \E i \in 1..Len(ssmSent) :
        /\ ssmSent[i].op = "PutParameter"
        /\ dict[KeyOf(ssmSent[i].Name)] = <<" ", " ">>
        /\ ssmSent[i].Value = <<" ", " ", " ">>

\* C28: the delete command names in its DeleteParameters requests only
\* parameters that are a key of the local file and present under the path
\* of the file, each of them once, and at most 10 in one request.
C28_DeleteOnlyMatchingNames ==
    [][(ssmCmd = "delete" /\ ssmPc = "do" /\ ssmPc' = "done") =>
          LET matching == {buildParameterPath(k) : k \in DOMAIN dict}
                              \cap Range(NamesOf(params))
              Named(name) ==
                  {<<i, j>> \in (1..Len(ssmSent')) \X (1..MaxKeys + 1) :
                       /\ j <= Len(ssmSent'[i].Names)
                       /\ ssmSent'[i].Names[j] = name}
          IN  /\ \A i \in 1..Len(ssmSent') :
                    /\ Len(ssmSent'[i].Names) <= 10
                    /\ Range(ssmSent'[i].Names) \subseteq matching
              /\ \A name \in matching : Cardinality(Named(name)) = 1
      ]_vars

\* C29: the key id that get stores through aliasFor is resolved to the key
\* id of the parameter again by the deref of put, whether the key has a
\* known alias or not, and when the alias list was not loaded.
C29_KeyIdRoundTrips ==
    (ssmCmd = "get" /\ ssmPc = "done" /\ ~ssmPrefs.NoStoreSecureString) =>
        \A i \in 1..Len(params) :
            (/\ params[i].Type = ParameterTypeSecureString
             /\ params[i].KeyId # <<>>) =>
                LET sidecar == Append(KeyOf(params[i].Name), KeyIdSuffix)
                IN  /\ sidecar \in DOMAIN dict
                    /\ deref(kmsMap, dict[sidecar]) = params[i].KeyId[1]

====
